---- MODULE Spec2Model ----
(***************************************************************************)
(* A model of react-issue-finder's parallel analysis engine                *)
(* (src/src/core/analysisEngine.ts) and of its analysis worker             *)
(* (src/unnamed/part_000, the worker script analysisWorker).               *)
(*                                                                         *)
(* The main thread of the engine is an event loop: every action below is   *)
(* one macrotask of that loop (a call of a public method, a 'message' or   *)
(* 'error' event of a worker, a timer) together with all the promise       *)
(* continuations (microtasks) it releases.  A worker thread is a second     *)
(* event loop; its 'message' handler is one action.                         *)
(***************************************************************************)
EXTENDS Integers, Sequences, FiniteSets, TLC

VARIABLES
    supplied,       \* the options object the caller passed to the constructor
    options,        \* AnalysisEngine.options (batchSize, workerCount, maxFiles, configPath)
    configFile,     \* the configuration file on disk (environment)
    workers,        \* AnalysisEngine.workers: worker ids by index
    workerPool,     \* AnalysisEngine.workerPool: the free workers, a stack
    activeJobs,     \* keys of AnalysisEngine.activeJobs (the pending-jobs map)
    jobId,          \* AnalysisEngine.jobId
    jobs,           \* per job id: the closure of analyzeFileWithWorker (file, worker, settle calls)
    timers,         \* job ids whose 30 s timer is armed and has not fired
    wstate,         \* per worker thread: "alive" | "dead", and whether it has an 'error' listener
    inbox,          \* per worker: messages posted to it and not yet handled
    outbox,         \* per worker: messages it posted to the main thread, not yet delivered
    replacing,      \* replaceWorker calls suspended at 'await failedWorker.terminate()'
    faults,         \* number of worker faults so far
    phase,          \* "constructed" | "ready" | "running" | "spinning" | "done" | "rejected" | "crashed"
    issueTypes,     \* the issueTypes argument of analyzeProject
    fileBeh,        \* per file: what the analyzers do on it (environment)
    allFiles,       \* analyzeProject: allFiles
    filesToAnalyze, \* analyzeProject: filesToAnalyze
    batches,        \* analyzeProject: batches
    batchIndex,     \* analyzeProject: batchIndex
    promise,        \* per file: the state of its batch promise
    results,        \* analyzeProject: results
    processedFiles, \* analyzeProject: processedFiles
    progress,       \* the calls of progressCallback, in order
    warnings,       \* console.warn calls, in order
    memChecks,      \* checkMemoryUsage calls: the 'memoryUsage' events emitted
    analysis,       \* the ProjectAnalysis analyzeProject returned
    watch,          \* watchMode: the watcher, its debounce timer, the clock and what was observed
    gc,             \* memory: whether global.gc exists, the calls made, the heap levels the process shows
    cli,            \* the analyze command of the CLI: its arguments, its position, its exit code
    clock           \* the time of the event loop in seconds, and when each file was submitted

vars == <<supplied, options, configFile, workers, workerPool, activeJobs, jobId, jobs, timers,
          wstate, inbox, outbox, replacing, faults, phase, issueTypes, fileBeh,
          allFiles, filesToAnalyze, batches, batchIndex, promise, results,
          processedFiles, progress, warnings, memChecks, analysis, watch, gc, cli, clock>>

-----------------------------------------------------------------------------
(* Bounds of the model *)

\* files a discovery can return in a full run
MaxDiscovered == 3
\* worker faults ('error' events) in a run
MaxFaults == 1
\* length of a requested issue-type list in the worker-wrapper runs
MaxTypes == 3
\* size of a discovered file list in the file-cap runs, beyond the cap floor
CapSlack == 3
\* files and batch sizes of the batching runs
MaxBatchFiles == 8
MaxBatchSize == 4
\* detection rules of an analyzer in the analyzer runs
MaxRules == 3
\* file-system events and seconds of clock time in the watch runs
MaxWatchEvents == 3
MaxWatchTime == 6
\* seconds of clock time in the job-timeout runs, and the seconds between
\* two moments at which something happens
MaxClock == 70
ClockStep == 10
\* worker threads that die in the worker-death runs
MaxDeaths == 2

-----------------------------------------------------------------------------
(* JavaScript numbers as the engine sees them: an integer, NaN or undefined *)

Num(i) == [k |-> "num", v |-> i]
NaN == [k |-> "nan", v |-> 0]
Undefined == [k |-> "undef", v |-> 0]

IsNum(x) == x.k = "num"

\* Math.min(a, b): NaN when an argument does not convert to a number
MathMin(a, b) ==
    IF IsNum(a) /\ IsNum(b) THEN (IF a.v <= b.v THEN a ELSE b) ELSE NaN

\* Math.max(a, b)
MathMax(a, b) ==
    IF IsNum(a) /\ IsNum(b) THEN (IF a.v >= b.v THEN a ELSE b) ELSE NaN

\* a || b
JsOr(a, b) == IF IsNum(a) /\ a.v # 0 THEN a ELSE b

\* a > b on numbers: false when either side is NaN
JsGreater(a, b) == IsNum(a) /\ IsNum(b) /\ a.v > b.v

\* a < b
JsLess(a, b) == IsNum(a) /\ IsNum(b) /\ a.v < b.v

\* ToIntegerOrInfinity of a slice bound: NaN and undefined-as-NaN give 0
ToInteger(x) == IF IsNum(x) THEN x.v ELSE 0

Min(a, b) == IF a <= b THEN a ELSE b
Max(a, b) == IF a >= b THEN a ELSE b

\* Array.prototype.slice(start, end) with integer start and a JS-number end
Slice(items, start, end) ==
    LET len == Len(items)
        rel(i) == IF i < 0 THEN Max(len + i, 0) ELSE Min(i, len)
        from == rel(start)
        to == rel(ToInteger(end))
    IN  IF to > from THEN SubSeq(items, from + 1, to) ELSE <<>>

-----------------------------------------------------------------------------
(* Options: constructor and loadConfiguration *)

BatchSizeMin == 1
BatchSizeMax == 1000
WorkerCountMin == 1
WorkerCountMax == 8
MaxFilesMin == 100

\* a constructor that clamps batchSize and workerCount but takes maxFiles as given
ConstructorNoFloor(opts) ==
    [batchSize |-> MathMax(Num(BatchSizeMin), MathMin(Num(BatchSizeMax), opts.batchSize)),
     workerCount |-> MathMax(Num(WorkerCountMin), MathMin(Num(WorkerCountMax), opts.workerCount)),
     maxFiles |-> opts.maxFiles,
     configPath |-> opts.configPath]

\* new AnalysisEngine(opts)
Constructor(opts) ==
    [batchSize |-> MathMax(Num(BatchSizeMin), MathMin(Num(BatchSizeMax), opts.batchSize)),
     workerCount |-> MathMax(Num(WorkerCountMin), MathMin(Num(WorkerCountMax), opts.workerCount)),
     maxFiles |-> MathMax(Num(MaxFilesMin), opts.maxFiles),
     configPath |-> opts.configPath]

\* a configuration file: absent, unreadable, or JSON with or without an
\* "analysis" object whose fields may be missing (undefined)
NoFile == [st |-> "absent", analysis |-> FALSE,
           batchSize |-> Undefined, workerCount |-> Undefined, maxFiles |-> Undefined]
BadFile == [st |-> "invalid", analysis |-> FALSE,
            batchSize |-> Undefined, workerCount |-> Undefined, maxFiles |-> Undefined]
JsonFile(a, b, w, m) ==
    [st |-> "ok", analysis |-> a, batchSize |-> b, workerCount |-> w, maxFiles |-> m]

\* a loadConfiguration whose catch resets the options to the defaults of the
\* command line
LoadConfigurationResets(opts, file) ==
    IF file.st = "ok" /\ file.analysis
    THEN [opts EXCEPT !.batchSize = JsOr(file.batchSize, opts.batchSize),
                      !.workerCount = JsOr(file.workerCount, opts.workerCount),
                      !.maxFiles = JsOr(file.maxFiles, opts.maxFiles)]
    ELSE IF file.st = "invalid"
    THEN [opts EXCEPT !.batchSize = Num(100), !.workerCount = Num(4), !.maxFiles = Num(10000)]
    ELSE opts

\* loadConfiguration(configPath): the options after the merge
LoadConfiguration(opts, file) ==
    IF file.st = "ok" /\ file.analysis
    THEN [opts EXCEPT !.batchSize = JsOr(file.batchSize, opts.batchSize),
                      !.workerCount = JsOr(file.workerCount, opts.workerCount),
                      !.maxFiles = JsOr(file.maxFiles, opts.maxFiles)]
    ELSE opts

\* loadConfiguration's catch block: the warning it prints
LoadConfigurationWarns(file) == file.st = "invalid"

\* initialize(): 'this.options.configPath && existsSync(this.options.configPath)'
ConfigIsLoaded(opts, file) == opts.configPath # "" /\ file.st # "absent"

-----------------------------------------------------------------------------
(* The analysis worker: analyzers and the file wrapper *)

\* Object.values(IssueType), in declaration order
IssueTypeValues == <<"type-error", "js-to-ts", "refactoring", "security", "performance">>

IssueTypeSet == {IssueTypeValues[i] : i \in DOMAIN IssueTypeValues}

Range(s) == {s[i] : i \in DOMAIN s}

\* one finding: the analyzer that produced it, its category, the number of
\* the detection rule that produced it, its severity
Finding(a, t, i) == [by |-> a, type |-> t, n |-> i, severity |-> "warning"]

\* the finding an analyzer's catch block pushes: its own category, severity
\* ERROR, the failure as message (rule number 0)
FailureFinding(a) == [by |-> a, type |-> a, n |-> 0, severity |-> "error"]

\* what happens inside an analyzer on a file: parser.parseFile returns a
\* source file ("ok"), returns null ("null") or throws ("throws"), and each
\* detection rule, in order, finds nothing ("none"), has a finding ("finds")
\* or throws ("throws")
Runs(parse, rules) == [escapes |-> FALSE, parse |-> parse, rules |-> rules]

\* an analyzer whose analyzeFile rejects; none of the analyzers of the
\* repository does, the worker's loop is written for one that would
Escapes == [escapes |-> TRUE, parse |-> "ok", rules |-> <<>>]

Silent == Runs("ok", <<"none">>)

\* an analyzer that never comes back from a file: a traversal or a type
\* check that runs on in the worker thread
RunsOn == Runs("runs on", <<>>)
Finds == Runs("ok", <<"finds">>)

\* what analyzer a returns on a file on which its one rule has a finding
AnalyzerIssues(a) == <<Finding(a, a, 1)>>

\* a file's behaviour: does building the parser for it throw, and per
\* analyzer what happens inside it
Behaviour(init, an) == [init |-> init, an |-> an]

RECURSIVE RunRules(_, _, _)
\* 'issues.push(...this.findX(sourceFile))' for the rules from the k-th on:
\* the findings pushed, and whether a rule threw (which ends the sequence)
RunRules(a, rules, k) ==
    IF k > Len(rules) THEN [issues |-> <<>>, threw |-> FALSE]
    ELSE IF rules[k] = "throws" THEN [issues |-> <<>>, threw |-> TRUE]
    ELSE LET rest == RunRules(a, rules, k + 1)
         IN  [issues |-> (IF rules[k] = "finds" THEN <<Finding(a, a, k)>> ELSE <<>>)
                            \o rest.issues,
              threw |-> rest.threw]

\* an analyzeFile without its try/catch
AnalyzerAnalyzeFileNoCatch(a, in) ==
    IF in.escapes \/ in.parse = "throws" THEN [threw |-> TRUE, issues |-> <<>>]
    ELSE IF in.parse = "null" THEN [threw |-> FALSE, issues |-> <<>>]
    ELSE LET r == RunRules(a, in.rules, 1)
         IN  [threw |-> r.threw, issues |-> IF r.threw THEN <<>> ELSE r.issues]

\* analyzeFile(filePath) of an analyzer: parse and rules inside try, the
\* catch pushes one failure finding on the issues collected so far
AnalyzerAnalyzeFile(a, in) ==
    IF in.escapes THEN [threw |-> TRUE, issues |-> <<>>]
    ELSE IF in.parse = "throws" THEN [threw |-> FALSE, issues |-> <<FailureFinding(a)>>]
    ELSE IF in.parse = "null" THEN [threw |-> FALSE, issues |-> <<>>]
    ELSE LET r == RunRules(a, in.rules, 1)
         IN  [threw |-> FALSE,
              issues |-> r.issues \o (IF r.threw THEN <<FailureFinding(a)>> ELSE <<>>)]

\* analyzers[issueType].analyzeFile(filePath): the issues returned
AnalyzerResult(a, beh) == AnalyzerAnalyzeFile(a, beh.an[a]).issues

\* the body of the for loop of analyzeFile for one issueType: the issues
\* pushed to allIssues.  'built' is whether the worker's analyzer set exists.
IssuesOfAnalyzer(a, beh, built) ==
    IF ~built \/ a \notin IssueTypeSet THEN <<>>
    ELSE IF AnalyzerAnalyzeFile(a, beh.an[a]).threw THEN <<>>
    ELSE AnalyzerResult(a, beh)

RECURSIVE CollectIssuesUntilThrow(_, _, _)
\* a loop whose try/catch encloses the whole loop: the first analyzer that
\* throws ends it
CollectIssuesUntilThrow(types, beh, built) ==
    IF types = <<>> THEN <<>>
    ELSE IF built /\ Head(types) \in IssueTypeSet
                  /\ AnalyzerAnalyzeFile(Head(types), beh.an[Head(types)]).threw THEN <<>>
    ELSE IssuesOfAnalyzer(Head(types), beh, built)
            \o CollectIssuesUntilThrow(Tail(types), beh, built)

RECURSIVE CollectIssues(_, _, _)
\* the for loop of analyzeFile over issueTypes
CollectIssues(types, beh, built) ==
    IF types = <<>> THEN <<>>
    ELSE IssuesOfAnalyzer(Head(types), beh, built) \o CollectIssues(Tail(types), beh, built)

\* initializeAnalyzers: does it run the initialization for this job
NeedsInit(w, projectPath) == w.parser # projectPath

\* initializeAnalyzers: the worker's globals after the call.  'parser' is
\* assigned before initializeProgram can throw; 'analyzers' only after it
InitializeAnalyzers(w, projectPath, beh) ==
    IF ~NeedsInit(w, projectPath) THEN w
    ELSE IF beh.init = "throws" THEN [w EXCEPT !.parser = projectPath]
    ELSE [w EXCEPT !.parser = projectPath, !.analyzers = projectPath, !.sets = @ + 1]

\* does 'await initializeAnalyzers' throw inside analyzeFile
InitThrows(w, projectPath, beh) == NeedsInit(w, projectPath) /\ beh.init = "throws"

\* an analyzeFile without its outer try/catch: a failure of
\* initializeAnalyzers rejects the call
AnalyzeFileNoCatch(w, filePath, projectPath, types, beh) ==
    IF InitThrows(w, projectPath, beh)
    THEN [file |-> filePath, issues |-> <<>>, rejected |-> TRUE]
    ELSE [file |-> filePath,
          issues |-> CollectIssues(types, beh,
                        InitializeAnalyzers(w, projectPath, beh).analyzers # ""),
          rejected |-> FALSE]

\* analyzeFile(filePath, projectPath, issueTypes) of the worker: its result.
\* The outer catch returns the empty result, the call never rejects
AnalyzeFile(w, filePath, projectPath, types, beh) ==
    IF InitThrows(w, projectPath, beh)
    THEN [file |-> filePath, issues |-> <<>>, rejected |-> FALSE]
    ELSE [file |-> filePath,
          issues |-> CollectIssues(types, beh,
                        InitializeAnalyzers(w, projectPath, beh).analyzers # ""),
          rejected |-> FALSE]

\* analyzeFile never returns for the job: the analyzer set is there and a
\* requested analyzer runs on; the throws of the analyzers before it are caught
AnalysisRunsOn(w, msg, beh) ==
    /\ ~InitThrows(w, msg.projectPath, beh)
    /\ InitializeAnalyzers(w, msg.projectPath, beh).analyzers # ""
    /\ \E i \in DOMAIN msg.issueTypes :
          /\ msg.issueTypes[i] \in IssueTypeSet
          /\ beh.an[msg.issueTypes[i]] = RunsOn

\* can parentPort.postMessage throw on a result: never on a path and an
\* empty list, which always clone; findings hold what the analyzers put in
PostMessageThrows(result) == IF result.issues = <<>> THEN {FALSE} ELSE BOOLEAN

\* the message the worker posts for a job; postThrows: posting the result
\* throws.  The handler's catch posts the error instead, as it does when
\* analyzeFile rejects
WorkerReply(w, msg, beh, postThrows) ==
    LET r == AnalyzeFile(w, msg.filePath, msg.projectPath, msg.issueTypes, beh)
    IN  IF postThrows \/ r.rejected
        THEN [jobId |-> msg.jobId, error |-> TRUE,
              result |-> [file |-> msg.filePath, issues |-> <<>>]]
        ELSE [jobId |-> msg.jobId, error |-> FALSE,
              result |-> [file |-> r.file, issues |-> r.issues]]

-----------------------------------------------------------------------------
(* The engine: pool, pending jobs, batches *)

ProjectPath == "proj"

\* a fresh worker thread; only the workers initializeWorkers creates get an
\* 'error' listener, the ones replaceWorker creates get none
NewWorker(listener) ==
    [st |-> "alive", listener |-> listener, parser |-> "", analyzers |-> "", sets |-> 0]

NoResult == [file |-> 0, issues |-> <<>>]

NoPromise == [st |-> "none", value |-> NoResult, reason |-> ""]

\* the part of the state the main thread's handlers change, as one record
Eng ==
    [workerPool |-> workerPool, activeJobs |-> activeJobs, jobId |-> jobId, jobs |-> jobs,
     timers |-> timers, inbox |-> inbox, promise |-> promise, results |-> results,
     processedFiles |-> processedFiles, progress |-> progress, warnings |-> warnings,
     memChecks |-> memChecks, batchIndex |-> batchIndex, phase |-> phase,
     analysis |-> analysis, allFiles |-> allFiles, filesToAnalyze |-> filesToAnalyze,
     batches |-> batches, watch |-> watch, gc |-> gc, cli |-> cli, clock |-> clock]

\* the handler's result becomes the next state; it is computed once
Apply(result) == \E e \in {result} :
    /\ workerPool' = e.workerPool
    /\ activeJobs' = e.activeJobs
    /\ jobId' = e.jobId
    /\ jobs' = e.jobs
    /\ timers' = e.timers
    /\ inbox' = e.inbox
    /\ promise' = e.promise
    /\ results' = e.results
    /\ processedFiles' = e.processedFiles
    /\ progress' = e.progress
    /\ warnings' = e.warnings
    /\ memChecks' = e.memChecks
    /\ batchIndex' = e.batchIndex
    /\ phase' = e.phase
    /\ analysis' = e.analysis
    /\ allFiles' = e.allFiles
    /\ filesToAnalyze' = e.filesToAnalyze
    /\ batches' = e.batches
    /\ watch' = e.watch
    /\ gc' = e.gc
    /\ cli' = e.cli
    /\ clock' = e.clock

NoAnalysis ==
    [totalFiles |-> 0, analyzedFiles |-> 0, results |-> <<>>,
     summary |-> [typeErrors |-> 0, jsFiles |-> 0, refactoringOpportunities |-> 0,
                  securityIssues |-> 0, performanceIssues |-> 0],
     returned |-> FALSE]

\* a createBatches that keeps only the full batches
RECURSIVE BatchesFromFullOnly(_, _, _)
BatchesFromFullOnly(items, batchSize, i) ==
    IF ~(i < Len(items)) \/ ~IsNum(batchSize) THEN <<>>
    ELSE IF i + batchSize.v > Len(items) THEN <<>>
    ELSE <<Slice(items, i, Num(i + batchSize.v))>>
            \o BatchesFromFullOnly(items, batchSize, i + batchSize.v)

\* createBatches(items, batchSize): the batches from index i on.  With a NaN
\* batch size the loop pushes slice(i, NaN), an empty batch, and ends
RECURSIVE BatchesFrom(_, _, _)
BatchesFrom(items, batchSize, i) ==
    IF ~(i < Len(items)) THEN <<>>
    ELSE IF ~IsNum(batchSize) THEN <<Slice(items, i, NaN)>>
    ELSE <<Slice(items, i, Num(i + batchSize.v))>> \o BatchesFrom(items, batchSize, i + batchSize.v)

CreateBatches(items, batchSize) == BatchesFrom(items, batchSize, 0)

\* does the loop of createBatches end: 'i += batchSize' must pass
\* items.length.  With a batch size of zero or below i never does, and the
\* loop pushes slices until the heap is exhausted
CreateBatchesEnds(items, batchSize) ==
    Len(items) = 0 \/ ~IsNum(batchSize) \/ batchSize.v > 0

\* the message analyzeFileWithWorker posts
JobMessage(id, f, types) ==
    [jobId |-> id, filePath |-> f, projectPath |-> ProjectPath, issueTypes |-> types]

\* the delay of a job's timeout timer, in seconds
JobTimeoutSeconds == 30

\* no clock: the runs in which time is left open
NoClock == [on |-> FALSE, now |-> 0, submitted |-> <<>>]

\* analyzeFileWithWorker(filePath, ...): with no free worker the call is
\* retried after the poll delay; otherwise a worker is popped, the job is
\* registered, the message posted and the job's timer armed, due one timeout
\* delay after this call
AnalyzeFileWithWorker(e, f) ==
    IF Len(e.workerPool) = 0
    THEN [e EXCEPT !.promise[f] = [NoPromise EXCEPT !.st = "waiting"]]
    ELSE LET worker == e.workerPool[Len(e.workerPool)]
             currentJobId == e.jobId + 1
         IN  [e EXCEPT
                !.workerPool = SubSeq(e.workerPool, 1, Len(e.workerPool) - 1),
                !.jobId = currentJobId,
                !.activeJobs = @ \cup {currentJobId},
                !.jobs = Append(@, [file |-> f, worker |-> worker, settled |-> <<>>,
                                    due |-> e.clock.now + JobTimeoutSeconds]),
                !.inbox[worker] = IF wstate[worker].st = "alive"
                                  THEN Append(@, JobMessage(currentJobId, f, issueTypes))
                                  ELSE @,
                !.timers = @ \cup {currentJobId},
                !.promise[f] = [NoPromise EXCEPT !.st = "pending"]]

RECURSIVE SubmitBatch(_, _)
\* batch.map(async (file) => ...): every file of the batch calls
\* analyzeFileWithWorker, in order, in the same turn.  The batch is walked
\* left half first, then right half, which is the same order; the test on
\* jobId is always true (job ids only grow) and only makes the left half be
\* evaluated before the right one is started, so that long batches do not
\* nest the evaluation
SubmitBatch(e, batch) ==
    IF batch = <<>> THEN e
    ELSE IF Len(batch) = 1
    THEN AnalyzeFileWithWorker([e EXCEPT !.clock.submitted[batch[1]] = e.clock.now], batch[1])
    ELSE LET half == Len(batch) \div 2
             left == SubmitBatch(e, SubSeq(batch, 1, half))
         IN  IF left.jobId >= e.jobId
             THEN SubmitBatch(left, SubSeq(batch, half + 1, Len(batch)))
             ELSE e

IsSettled(p) == p.st \in {"fulfilled", "rejected"}

\* a barrier that lets the loop go on as soon as one promise has settled
BarrierAnySettled(e, batch) ==
    IF batch = <<>> \/ \E i \in DOMAIN batch : IsSettled(e.promise[batch[i]])
    THEN "go" ELSE "wait"

\* a barrier with the semantics of Promise.all: a rejected promise makes the
\* await throw
BarrierAllFulfilled(e, batch) ==
    IF \E i \in DOMAIN batch : e.promise[batch[i]].st = "rejected" THEN "throw"
    ELSE IF \A i \in DOMAIN batch : IsSettled(e.promise[batch[i]]) THEN "go" ELSE "wait"

\* await Promise.allSettled(batchPromises): "go" once every promise of the
\* batch has settled, whatever the outcome; it never throws
BatchBarrier(e, batch) ==
    IF \A i \in DOMAIN batch : IsSettled(e.promise[batch[i]]) THEN "go" ELSE "wait"

RECURSIVE CollectResultsKeepsEmpty(_, _)
\* a forEach that pushes every fulfilled result, with or without issues
CollectResultsKeepsEmpty(e, batch) ==
    IF batch = <<>> THEN <<>>
    ELSE LET p == e.promise[Head(batch)]
         IN  (IF p.st = "fulfilled" THEN <<p.value>> ELSE <<>>)
             \o CollectResultsKeepsEmpty(e, Tail(batch))

\* results pushed as the jobs of the batch complete: the fulfilled results
\* with issues in the order of their progress calls
CollectResultsAsCompleted(e, batch) ==
    LET done == SelectSeq(e.progress,
                          LAMBDA p : /\ p.currentFile \in {batch[i] : i \in DOMAIN batch}
                                     /\ Len(e.promise[p.currentFile].value.issues) > 0)
    IN  [i \in 1..Len(done) |-> e.promise[done[i].currentFile].value]

RECURSIVE CollectResults(_, _)
\* batchResults.forEach: the fulfilled results with at least one issue
CollectResults(e, batch) ==
    IF batch = <<>> THEN <<>>
    ELSE LET p == e.promise[Head(batch)]
         IN  (IF p.st = "fulfilled" /\ Len(p.value.issues) > 0 THEN <<p.value>> ELSE <<>>)
             \o CollectResults(e, Tail(batch))

\* a filter that lets every issue through, whatever its type
CountTypeAny(issues, t) == Len(issues)

RECURSIVE CountType(_, _)
\* r.issues.filter(i => i.type === t).length
CountType(issues, t) ==
    IF issues = <<>> THEN 0
    ELSE (IF Head(issues).type = t THEN 1 ELSE 0) + CountType(Tail(issues), t)

\* a reduce whose callback drops the accumulator: the count of the last result
SumTypeLastOnly(res, t) ==
    IF res = <<>> THEN 0 ELSE CountType(res[Len(res)].issues, t)

RECURSIVE SumType(_, _)
\* results.reduce((sum, r) => sum + r.issues.filter(...).length, 0)
SumType(res, t) ==
    IF res = <<>> THEN 0 ELSE CountType(Head(res).issues, t) + SumType(Tail(res), t)

\* the summary analyzeProject generates
Summary(res) ==
    [typeErrors |-> SumType(res, "type-error"),
     jsFiles |-> SumType(res, "js-to-ts"),
     refactoringOpportunities |-> SumType(res, "refactoring"),
     securityIssues |-> SumType(res, "security"),
     performanceIssues |-> SumType(res, "performance")]

\* the debounce interval of watchMode, in seconds
DebounceSeconds == 2

\* no watcher
NoWatch ==
    [on |-> FALSE, timer |-> -1, now |-> 0, events |-> <<>>, runs |-> <<>>,
     discovering |-> 0, running |-> FALSE, cbThrows |-> FALSE, outcomes |-> <<>>, log |-> <<>>]

\* a timer callback without try/catch: the rejection is unhandled and ends
\* the process
WatchNoCatch(e, error) == [e EXCEPT !.phase = "crashed", !.watch.on = FALSE]

\* the catch of the timer callback: console.error, nothing else
WatchCatch(e, error) == [e EXCEPT !.watch.log = Append(@, error)]

\* the timer callback of watchMode after 'await this.analyzeProject(...)'
\* has returned: changeCallback(results), which may throw
WatchRunReturns(e) ==
    IF ~e.watch.running THEN e
    ELSE IF e.watch.cbThrows
    THEN WatchCatch([e EXCEPT !.watch.running = FALSE,
                              !.watch.outcomes = Append(@, [kind |-> "callback threw",
                                                            at |-> e.watch.now])],
                    "callback")
    ELSE [e EXCEPT !.watch.running = FALSE,
                   !.watch.outcomes = Append(@, [kind |-> "ok", at |-> e.watch.now])]

\* the options object commander builds from the command line.  A flag
\* declared as '--no-reports' defines the option 'reports' (true unless the
\* flag is given); no option 'noReports' exists, reading it gives undefined
CommanderOptions(argv) ==
    [types |-> argv.types, output |-> argv.output, reports |-> ~argv.noReports,
     noReports |-> "undefined", watch |-> argv.watch]

\* 'if (!options.noReports)'
ReportsWanted(opts) == opts.noReports \in {"undefined", "false"}

\* the output formats the report loop walks
OutputFormats(output) ==
    IF output = "all" THEN <<"json", "html", "markdown">> ELSE <<output>>

\* the engine is not driven by the CLI
NoCli ==
    [step |-> "none", exit |-> -1,
     argv |-> [pathExists |-> TRUE, types |-> <<"all">>, output |-> "all", noReports |-> FALSE,
               watch |-> FALSE, initFails |-> FALSE, discoveryFails |-> FALSE,
               reportFails |-> ""],
     options |-> [types |-> <<"all">>, output |-> "all", reports |-> TRUE,
                  noReports |-> "undefined", watch |-> FALSE],
     todo |-> <<>>, reports |-> <<>>, failed |-> <<>>]

\* may the engine method that belongs to CLI position s be called: always
\* when the engine is used without the CLI
CliAllows(s) == cli.step \in {"none", s}

\* process.exit(code): the process and its threads end
ProcessExit(e, code, message) ==
    [e EXCEPT !.phase = "exited", !.cli.step = "exited", !.cli.exit = code,
              !.cli.failed = IF message = "" THEN @ ELSE Append(@, message)]

\* the analyze action after the report step: watch mode, or its end
CliAfterReports(e) ==
    [e EXCEPT !.cli.step = IF e.cli.options.watch THEN "watching" ELSE "returned"]

\* the analyze action after 'await engine.analyzeProject(...)': the summary
\* is printed, then the report step starts or is skipped
CliRunReturns(e) ==
    IF e.cli.step # "discovering" THEN e
    ELSE IF ReportsWanted(e.cli.options)
    THEN [e EXCEPT !.cli.step = "reporting", !.cli.todo = OutputFormats(e.cli.options.output)]
    ELSE CliAfterReports(e)

\* the analyze action after 'await engine.initialize()': analyzeProject is
\* called and starts the discovery
CliAfterInitialize(e) ==
    IF e.cli.step = "initializing" THEN [e EXCEPT !.cli.step = "discovering"] ELSE e

\* the ProjectAnalysis analyzeProject returns, and what the caller awaiting
\* it does next in the same turn
Finish(e) ==
    WatchRunReturns(CliRunReturns(
        [e EXCEPT !.phase = "done",
                  !.analysis = [totalFiles |-> Len(e.allFiles),
                                analyzedFiles |-> Len(e.filesToAnalyze),
                                results |-> e.results,
                                summary |-> Summary(e.results),
                                returned |-> TRUE]]))

\* a memory check under which the results collected so far are lost when
\* the heap is above the threshold
CheckMemoryUsageDropsResults(e, at, high) ==
    [e EXCEPT !.memChecks = Append(@, [at |-> at, high |-> high]),
              !.warnings = IF high THEN Append(@, "memory") ELSE @,
              !.results = IF high THEN <<>> ELSE @]

\* checkMemoryUsage(): the event it emits and the warning above the threshold
CheckMemoryUsage(e, at, high) ==
    [e EXCEPT !.memChecks = Append(@, [at |-> at, high |-> high]),
              !.warnings = IF high THEN Append(@, "memory") ELSE @]

\* 'if (batchIndex % 5 === 0)' after a batch
MemoryCheckDue(index) == index % 5 = 0

\* 'if (global.gc) global.gc()'
CollectGarbage(e) == IF e.gc.hook THEN [e EXCEPT !.gc.calls = @ + 1] ELSE e

RECURSIVE RunBatches(_, _)
\* the batch loop of analyzeProject from the await of batch e.batchIndex on,
\* as far as it gets in this turn
RunBatches(e, high) ==
    IF e.phase # "running" THEN e
    ELSE LET batch == e.batches[e.batchIndex + 1]
             barrier == BatchBarrier(e, batch)
         IN  IF barrier = "wait" THEN e
             ELSE IF barrier = "throw" THEN [e EXCEPT !.phase = "rejected"]
             ELSE LET collected == [e EXCEPT !.results = @ \o CollectResults(e, batch)]
                      checked == IF MemoryCheckDue(e.batchIndex)
                                 THEN CollectGarbage(CheckMemoryUsage(collected, e.batchIndex, high))
                                 ELSE collected
                      next == [checked EXCEPT !.batchIndex = @ + 1]
                  IN  IF next.batchIndex < Len(e.batches)
                      THEN RunBatches(SubmitBatch(next, e.batches[next.batchIndex + 1]), high)
                      ELSE Finish(next)

\* (current / total) * 100, as the fraction it is
Percentage(current, total) == [num |-> current * 100, den |-> total]

\* a continuation that reports the file's place in the file list as current
BatchPromiseSettlesByPosition(e, f, kind, value) ==
    IF kind = "result"
    THEN [e EXCEPT !.processedFiles = @ + 1,
                   !.progress = Append(@, [current |-> f,
                                           total |-> Len(e.filesToAnalyze),
                                           percentage |-> Percentage(f, Len(e.filesToAnalyze)),
                                           currentFile |-> f]),
                   !.promise[f] = [st |-> "fulfilled", value |-> value, reason |-> ""]]
    ELSE [e EXCEPT !.promise[f] = [st |-> "rejected", value |-> NoResult, reason |-> kind]]

\* the continuation of 'await this.analyzeFileWithWorker(...)' in the batch
\* promise of file f once the job's promise has settled
BatchPromiseSettles(e, f, kind, value) ==
    IF kind = "result"
    THEN [e EXCEPT !.processedFiles = @ + 1,
                   !.progress = Append(@, [current |-> e.processedFiles + 1,
                                           total |-> Len(e.filesToAnalyze),
                                           percentage |-> Percentage(e.processedFiles + 1,
                                                                     Len(e.filesToAnalyze)),
                                           currentFile |-> f]),
                   !.promise[f] = [st |-> "fulfilled", value |-> value, reason |-> ""]]
    ELSE [e EXCEPT !.promise[f] = [st |-> "rejected", value |-> NoResult, reason |-> kind]]

\* a termination that forgets to push the worker back on the free pool
SettleKeepsWorker(e, id, worker, kind, value, high) ==
    LET removed == [e EXCEPT !.activeJobs = @ \ {id},
                             !.jobs[id].settled = Append(@, kind)]
    IN  RunBatches(BatchPromiseSettles(removed, e.jobs[id].file, kind, value), high)

\* a pending job is terminated: it leaves the pending map, its promise is
\* resolved or rejected and the worker is pushed on the free pool; then the
\* promise continuations run
Settle(e, id, worker, kind, value, high) ==
    LET removed == [e EXCEPT !.activeJobs = @ \ {id},
                             !.jobs[id].settled = Append(@, kind),
                             !.workerPool = Append(@, worker)]
    IN  RunBatches(BatchPromiseSettles(removed, e.jobs[id].file, kind, value), high)

\* a 'message' handler that does not look the job up in the pending map
MessageGuardAnyJob(e, message) == message.jobId # 0

\* the guard of the worker 'message' handler
MessageGuard(e, message) == message.jobId # 0 /\ message.jobId \in e.activeJobs

\* a timeout callback without its guard
TimerGuardAlways(e, id) == TRUE

\* the guard of the job's timeout callback
TimerGuard(e, id) == id \in e.activeJobs

-----------------------------------------------------------------------------
(* Actions *)

\* the process lives and its main thread comes back to the event loop
Alive == phase \notin {"crashed", "exited", "spinning"}

\* process.memoryUsage().heapUsed at a memory check: above the warning
\* threshold or not, among the levels the process of this run can show
HeapLevels == gc.levels

\* the number of workers initializeWorkers creates: 'i < workerCount'
PoolSize(workerCount) == IF IsNum(workerCount) /\ workerCount.v > 0 THEN workerCount.v ELSE 0

\* initialize(): the pool is built, then the configuration file is merged
\* into the options, then memory is checked
Initialize ==
    /\ phase = "constructed"
    /\ CliAllows("initializing")
    /\ ~cli.argv.initFails
    /\ \E high \in HeapLevels :
        LET n == PoolSize(options.workerCount)
            loaded == ConfigIsLoaded(options, configFile)
            warned == IF loaded /\ LoadConfigurationWarns(configFile)
                      THEN [Eng EXCEPT !.warnings = Append(@, "config")] ELSE Eng
            e == CheckMemoryUsage(warned, -1, high)
        IN  /\ workers' = [i \in 1..n |-> i]
            /\ wstate' = [i \in 1..n |-> NewWorker(TRUE)]
            /\ outbox' = [i \in 1..n |-> <<>>]
            /\ options' = IF loaded THEN LoadConfiguration(options, configFile) ELSE options
            /\ Apply(CliAfterInitialize(
                        [e EXCEPT !.workerPool = [i \in 1..n |-> i],
                                  !.inbox = [i \in 1..n |-> <<>>],
                                  !.phase = "ready"]))
    /\ UNCHANGED <<supplied, configFile, replacing, faults, issueTypes, fileBeh>>

\* analyzeProject from the return of discovery on: cap, warning, batches,
\* and the first batch submitted
StartRun(e0, high) ==
    LET found == [i \in 1..Len(fileBeh) |-> i]
        capped == Slice(found, 0, options.maxFiles)
        warned == IF JsGreater(Num(Len(found)), options.maxFiles)
                  THEN Append(e0.warnings, "cap") ELSE e0.warnings
        bs == CreateBatches(capped, options.batchSize)
        e == [e0 EXCEPT !.allFiles = found, !.filesToAnalyze = capped,
                        !.warnings = warned, !.batches = bs,
                        !.results = <<>>, !.processedFiles = 0, !.progress = <<>>,
                        !.batchIndex = 0, !.analysis = NoAnalysis,
                        !.promise = [i \in 1..Len(found) |-> NoPromise],
                        !.clock.submitted = [i \in 1..Len(found) |-> -1],
                        !.phase = "running"]
    IN  IF ~CreateBatchesEnds(capped, options.batchSize)
        THEN [e0 EXCEPT !.allFiles = found, !.filesToAnalyze = capped, !.warnings = warned,
                        !.phase = "spinning"]
        ELSE IF Len(bs) = 0 THEN Finish(e) ELSE RunBatches(SubmitBatch(e, bs[1]), high)

\* analyzeProject, called on an initialized engine, once discovery has returned
AnalyzeProject ==
    /\ phase = "ready"
    /\ CliAllows("discovering")
    /\ ~cli.argv.discoveryFails
    /\ \E high \in HeapLevels : Apply(StartRun(Eng, high))
    /\ UNCHANGED <<supplied, options, configFile, workers, wstate, outbox, replacing, faults,
                   issueTypes, fileBeh>>

\* the 10 ms retry of analyzeFileWithWorker for a file that found no free worker
Poll(f) ==
    /\ Alive
    /\ f \in DOMAIN promise
    /\ promise[f].st = "waiting"
    /\ Apply(AnalyzeFileWithWorker(Eng, f))
    /\ UNCHANGED <<supplied, options, configFile, workers, wstate, outbox, replacing, faults,
                   issueTypes, fileBeh>>

\* the worker's 'message' handler: one job analysed and answered
WorkerOnMessage(w) ==
    /\ Alive
    /\ w \in DOMAIN wstate
    /\ wstate[w].st = "alive"
    /\ inbox[w] # <<>>
    /\ LET msg == Head(inbox[w])
           beh == fileBeh[msg.filePath]
       IN  /\ ~AnalysisRunsOn(wstate[w], msg, beh)
           /\ \E postThrows \in PostMessageThrows(AnalyzeFile(wstate[w], msg.filePath,
                                        msg.projectPath, msg.issueTypes, beh)) :
                outbox' = [outbox EXCEPT ![w] = Append(@, WorkerReply(wstate[w], msg, beh, postThrows))]
           /\ wstate' = [wstate EXCEPT ![w] = InitializeAnalyzers(@, msg.projectPath, beh)]
           /\ inbox' = [inbox EXCEPT ![w] = Tail(@)]
    /\ UNCHANGED <<supplied, options, configFile, workers, workerPool, activeJobs, jobId, jobs, timers,
                   replacing, faults, phase, issueTypes, fileBeh, allFiles, filesToAnalyze,
                   batches, batchIndex, promise, results, processedFiles, progress,
                   warnings, memChecks, analysis, watch, gc, cli, clock>>

\* the main thread's 'message' handler of worker w
OnMessage(w) ==
    /\ Alive
    /\ w \in DOMAIN outbox
    /\ outbox[w] # <<>>
    /\ outbox' = [outbox EXCEPT ![w] = Tail(@)]
    /\ LET message == Head(outbox[w])
       IN  \E high \in HeapLevels :
             Apply(IF MessageGuard(Eng, message)
                   THEN Settle(Eng, message.jobId, w,
                               IF message.error THEN "error" ELSE "result",
                               message.result, high)
                   ELSE Eng)
    /\ UNCHANGED <<supplied, options, configFile, workers, wstate, replacing, faults, issueTypes, fileBeh>>

\* is the timer of job id due: at any time when time is left open
TimerDue(id) == clock.on => jobs[id].due <= clock.now

\* the 30 s timer of job id fires
Timeout(id) ==
    /\ Alive
    /\ id \in timers
    /\ TimerDue(id)
    /\ \E high \in HeapLevels :
         LET e == [Eng EXCEPT !.timers = @ \ {id}]
         IN  Apply(IF TimerGuard(e, id)
                   THEN Settle(e, id, jobs[id].worker, "timeout", NoResult, high)
                   ELSE e)
    /\ UNCHANGED <<supplied, options, configFile, workers, wstate, outbox, replacing, faults,
                   issueTypes, fileBeh>>

IndexOf(seq, x) == IF \E i \in DOMAIN seq : seq[i] = x
                   THEN CHOOSE i \in DOMAIN seq : seq[i] = x /\ \A k \in 1..(i - 1) : seq[k] # x
                   ELSE 0

\* worker w's thread dies with an uncaught fault: its 'error' event.  With
\* the listener of initializeWorkers, replaceWorker starts and suspends at
\* 'await failedWorker.terminate()'; an 'error' event nobody listens to is
\* thrown in the main thread and ends the process.  At most 'limit' worker
\* threads die in a run
WorkerFault(w, limit) ==
    /\ Alive
    /\ phase \in {"ready", "running"}
    /\ w \in DOMAIN wstate
    /\ wstate[w].st = "alive"
    /\ faults < limit
    /\ faults' = faults + 1
    /\ wstate' = [wstate EXCEPT ![w].st = "dead"]
    /\ IF wstate[w].listener
       THEN /\ replacing' = IF IndexOf(workers, w) # 0
                            THEN replacing \cup {[worker |-> w, index |-> IndexOf(workers, w)]}
                            ELSE replacing
            /\ Apply([Eng EXCEPT !.inbox[w] = <<>>])
       ELSE /\ replacing' = replacing
            /\ Apply([Eng EXCEPT !.inbox[w] = <<>>, !.phase = "crashed"])
    /\ UNCHANGED <<supplied, options, configFile, workers, outbox, issueTypes, fileBeh>>

WorkerError(w) == WorkerFault(w, MaxFaults)

\* worker w ends itself: its 'uncaughtException' or 'unhandledRejection'
\* handler calls process.exit(1), which ends the thread.  The Worker object
\* emits 'exit', which the engine does not listen to
WorkerExits(w, limit) ==
    /\ Alive
    /\ phase \in {"ready", "running"}
    /\ w \in DOMAIN wstate
    /\ wstate[w].st = "alive"
    /\ faults < limit
    /\ faults' = faults + 1
    /\ wstate' = [wstate EXCEPT ![w].st = "dead"]
    /\ Apply([Eng EXCEPT !.inbox[w] = <<>>])
    /\ UNCHANGED <<supplied, options, configFile, workers, outbox, replacing, issueTypes, fileBeh>>

\* replaceWorker after 'await failedWorker.terminate()': a new worker takes
\* the failed worker's index in workers and is pushed on the free pool
ReplaceWorker(r) ==
    /\ Alive
    /\ r \in replacing
    /\ replacing' = replacing \ {r}
    /\ LET newWorker == Len(wstate) + 1
       IN  /\ wstate' = Append(wstate, NewWorker(FALSE))
           /\ outbox' = Append([outbox EXCEPT ![r.worker] = <<>>], <<>>)
           /\ workers' = [workers EXCEPT ![r.index] = newWorker]
           /\ Apply([Eng EXCEPT !.workerPool = Append(@, newWorker),
                                !.inbox = Append(@, <<>>)])
    /\ UNCHANGED <<supplied, options, configFile, faults, issueTypes, fileBeh>>

-----------------------------------------------------------------------------
(* Full runs *)

Options(b, w, m, path) == [batchSize |-> b, workerCount |-> w, maxFiles |-> m, configPath |-> path]

\* the options of the full runs, as passed to the constructor: batches of two
\* files on two workers, and on one worker (files then wait for a free slot)
RunOptions == {Options(Num(2), Num(w), Num(10000), "") : w \in {1, 2}}

\* all analyzers silent
Quiet == [a \in IssueTypeSet |-> Silent]

\* the files of the full runs: one with findings of several analyzers, one
\* without findings, one on which an analyzer rejects and a rule of another
\* throws after a finding
RunBehaviour(i) ==
    CASE i % 3 = 1 -> Behaviour("ok", [Quiet EXCEPT !["refactoring"] = Runs("ok", <<"finds", "finds">>),
                                               !["js-to-ts"] = Finds])
      [] i % 3 = 2 -> Behaviour("ok", Quiet)
      [] OTHER -> Behaviour("ok", [Quiet EXCEPT !["security"] = Escapes,
                                               !["performance"] = Runs("ok", <<"finds", "throws">>),
                                               !["type-error"] = Finds])

\* the engine after construction, in a process with or without the
\* garbage-collection hook, whose heap shows the given levels at the checks,
\* with the time of the event loop followed or left open
InitProcess(opts, file, types, behs, hook, levels, timed) ==
    /\ gc = [hook |-> hook, calls |-> 0, levels |-> levels]
    /\ clock = [NoClock EXCEPT !.on = timed]
    /\ cli = NoCli
    /\ supplied = opts
    /\ options = Constructor(opts)
    /\ configFile = file
    /\ workers = <<>>
    /\ workerPool = <<>>
    /\ activeJobs = {}
    /\ jobId = 0
    /\ jobs = <<>>
    /\ timers = {}
    /\ wstate = <<>>
    /\ inbox = <<>>
    /\ outbox = <<>>
    /\ replacing = {}
    /\ faults = 0
    /\ phase = "constructed"
    /\ issueTypes = types
    /\ fileBeh = behs
    /\ allFiles = <<>>
    /\ filesToAnalyze = <<>>
    /\ batches = <<>>
    /\ batchIndex = 0
    /\ promise = <<>>
    /\ results = <<>>
    /\ processedFiles = 0
    /\ progress = <<>>
    /\ warnings = <<>>
    /\ memChecks = <<>>
    /\ analysis = NoAnalysis
    /\ watch = NoWatch

\* the same with time left open
InitState(opts, file, types, behs, hook, levels) ==
    InitProcess(opts, file, types, behs, hook, levels, FALSE)

\* a process without the hook whose heap stays below the warning threshold
InitEngine(opts, file, types, behs) == InitState(opts, file, types, behs, FALSE, {FALSE})

Init ==
    \E n \in 0..MaxDiscovered, opts \in RunOptions :
        InitEngine(opts, NoFile, IssueTypeValues, [i \in 1..n |-> RunBehaviour(i)])

Next ==
    \/ Initialize
    \/ AnalyzeProject
    \/ \E f \in 1..Len(fileBeh) : Poll(f)
    \/ \E w \in DOMAIN wstate : WorkerOnMessage(w)
    \/ \E w \in DOMAIN wstate : OnMessage(w)
    \/ \E id \in timers : Timeout(id)
    \/ \E w \in DOMAIN wstate : WorkerError(w)
    \/ \E r \in replacing : ReplaceWorker(r)

Spec == Init /\ [][Next]_vars

-----------------------------------------------------------------------------
(* Construction and initialize() over caller-supplied values *)

ConfigBatchSizes == {NaN, Num(0), Num(50), Num(5000)}
ConfigWorkerCounts == {NaN, Num(0), Num(4), Num(100)}
ConfigMaxFiles == {NaN, Num(-1), Num(50), Num(20000)}

ConfigFiles ==
    {NoFile, BadFile,
     JsonFile(FALSE, Undefined, Undefined, Undefined),
     JsonFile(TRUE, Undefined, Undefined, Undefined),
     JsonFile(TRUE, Num(5000), Undefined, Undefined),
     JsonFile(TRUE, Num(0), Num(3), Num(20000)),
     JsonFile(TRUE, Undefined, Num(-1), Num(5))}

InitConfig ==
    \E b \in ConfigBatchSizes, w \in ConfigWorkerCounts, m \in ConfigMaxFiles,
       path \in {"", "cfg.json"}, file \in ConfigFiles :
        InitEngine(Options(b, w, m, path), file, IssueTypeValues, <<>>)

NextConfig == Initialize

SpecConfig == InitConfig /\ [][NextConfig]_vars

InRange(x, lo, hi) == IsNum(x) /\ lo <= x.v /\ x.v <= hi

\* C9: whatever the caller supplied (constructor options, configuration
\* file), the engine's options have batchSize in [1,1000], workerCount in
\* [1,8] and maxFiles >= 100, after construction and after initialize()
C9_OptionsAlwaysValid ==
    /\ InRange(options.batchSize, BatchSizeMin, BatchSizeMax)
    /\ InRange(options.workerCount, WorkerCountMin, WorkerCountMax)
    /\ IsNum(options.maxFiles) /\ options.maxFiles.v >= MaxFilesMin

-----------------------------------------------------------------------------
(* Properties of full runs *)

Count(seq, x) == Cardinality({i \in DOMAIN seq : seq[i] = x})

\* C1: free slots plus slots holding a pending job equal the configured
\* worker count in every state of an initialized engine, also after worker
\* faults, as long as there were fewer faults than workers
C1_PoolCapacityConstant ==
    (phase \in {"ready", "running", "done"} /\ faults < PoolSize(options.workerCount))
        => Len(workerPool) + Cardinality(activeJobs) = PoolSize(options.workerCount)

\* what a late event must leave alone: the caller's outcome, the run's
\* results and the free-slot collection
LateEventFrame ==
    UNCHANGED <<promise, results, workerPool, activeJobs, processedFiles, progress, analysis>>

C2Step ==
    /\ \A id \in 1..jobId' :
          IF id \in activeJobs' THEN jobs'[id].settled = <<>> ELSE Len(jobs'[id].settled) = 1
    /\ \A f \in DOMAIN promise : IsSettled(promise[f]) => promise'[f] = promise[f]
    /\ \A id \in timers \ timers' : id \notin activeJobs => LateEventFrame
    /\ \A w \in DOMAIN outbox :
          (/\ outbox[w] # <<>>
           /\ outbox'[w] = Tail(outbox[w])
           /\ replacing' = replacing
           /\ Head(outbox[w]).jobId \notin activeJobs) => LateEventFrame

\* C2: every dispatched job is terminated exactly once, by a result, a
\* worker-reported error or its timeout; a settled promise never changes; a
\* timer or a message that comes after the job left the pending map changes
\* neither the outcome, nor the results, nor the free pool
C2_TerminatedExactlyOnce == [][C2Step]_vars

\* a job that timed out whose worker answered afterwards, and a job that was
\* answered whose timer fired afterwards
C2_Witness ==
    /\ \E id \in 1..jobId :
          /\ jobs[id].settled = <<"timeout">>
          /\ wstate[jobs[id].worker].st = "alive"
          /\ \A i \in DOMAIN inbox[jobs[id].worker] : inbox[jobs[id].worker][i].jobId # id
          /\ \A i \in DOMAIN outbox[jobs[id].worker] : outbox[jobs[id].worker][i].jobId # id
    /\ \E id \in 1..jobId : jobs[id].settled = <<"result">> /\ id \notin timers

C3Step ==
    \A id \in timers \ timers' :
        id \in activeJobs =>
            LET w == jobs[id].worker
                f == jobs[id].file
                handedOut == {j \in (jobId + 1)..jobId' : jobs'[j].worker = w}
            IN  /\ id \notin activeJobs'
                /\ promise'[f].st = "rejected"
                /\ promise'[f].reason = "timeout"
                /\ Count(workerPool', w) + Cardinality(handedOut) = Count(workerPool, w) + 1

\* C3: when the timer of a job that is still pending fires, the job leaves
\* the pending map, its promise is rejected with a timeout failure and its
\* worker is pushed on the free pool (where the next submission may take it
\* at once), whether or not the worker ever answers
C3_TimeoutReclaimsSlot == [][C3Step]_vars

\* a job timed out while its message still waits, unread, at its worker,
\* and that worker is free again
C3_Witness ==
    \E id \in 1..jobId :
        /\ jobs[id].settled = <<"timeout">>
        /\ \E i \in DOMAIN inbox[jobs[id].worker] : inbox[jobs[id].worker][i].jobId = id
        /\ jobs[id].worker \in Range(workerPool)

\* the findings of category t in a result list, counted one by one
FindingsOfType(res, t) ==
    Cardinality({p \in UNION {{<<i, k>> : k \in DOMAIN res[i].issues} : i \in DOMAIN res} :
                    res[p[1]].issues[p[2]].type = t})

\* C4: in every ProjectAnalysis returned, each of the five summary counts is
\* the number of findings of that category over all FileResults in results
C4_SummaryMatchesResults ==
    analysis.returned =>
        /\ analysis.summary.typeErrors = FindingsOfType(analysis.results, "type-error")
        /\ analysis.summary.jsFiles = FindingsOfType(analysis.results, "js-to-ts")
        /\ analysis.summary.refactoringOpportunities = FindingsOfType(analysis.results, "refactoring")
        /\ analysis.summary.securityIssues = FindingsOfType(analysis.results, "security")
        /\ analysis.summary.performanceIssues = FindingsOfType(analysis.results, "performance")

\* a returned analysis of a run with a retained result, a file without
\* findings, a file that failed by timeout and one that failed by error
C4_Witness ==
    /\ analysis.returned
    /\ Len(analysis.results) >= 1
    /\ analysis.summary.refactoringOpportunities >= 2
    /\ \E f \in DOMAIN promise : promise[f].st = "fulfilled" /\ promise[f].value.issues = <<>>
    /\ \E f \in DOMAIN promise : promise[f].reason = "timeout"

\* C5: no file of a later batch is submitted while a file of an earlier
\* batch is unsettled
C5_BatchesInSequence ==
    \A b1 \in DOMAIN batches, b2 \in DOMAIN batches :
        b1 < b2 =>
            \A i \in DOMAIN batches[b1], k \in DOMAIN batches[b2] :
                promise[batches[b2][k]].st # "none" => IsSettled(promise[batches[b1][i]])

\* the second batch is in flight after a first batch of two files
C5_Witness ==
    /\ Len(batches) >= 2
    /\ Len(batches[1]) = 2
    /\ \E k \in DOMAIN batches[2] : promise[batches[2][k]].st = "pending"

\* C6: failures of jobs, by worker-reported error or by timeout, never end
\* the run: analyzeProject does not reject, a failed file has no FileResult,
\* the loop never rests at a batch that has settled, and the run ends with
\* every batch processed and a ProjectAnalysis returned
C6_FailuresNeverAbort ==
    /\ phase # "rejected"
    /\ \A f \in DOMAIN promise :
          promise[f].st = "rejected" => \A i \in DOMAIN results : results[i].file # f
    /\ phase = "running" =>
          /\ batchIndex < Len(batches)
          /\ \E i \in DOMAIN batches[batchIndex + 1] :
                ~IsSettled(promise[batches[batchIndex + 1][i]])
    /\ phase = "done" =>
          /\ analysis.returned
          /\ batchIndex = Len(batches)
          /\ \A i \in DOMAIN filesToAnalyze : IsSettled(promise[filesToAnalyze[i]])

\* a finished run of two batches in which every job failed, one at least by
\* a worker-reported error and one by timeout
C6_Witness ==
    /\ phase = "done"
    /\ Len(batches) >= 2
    /\ analysis.returned
    /\ \A f \in DOMAIN promise : promise[f].st = "rejected"
    /\ \E f \in DOMAIN promise : promise[f].reason = "error"
    /\ \E f \in DOMAIN promise : promise[f].reason = "timeout"

\* C7: a worker that faulted and was replaced is not in the free pool
C7_FaultedWorkerDiscarded ==
    \A w \in DOMAIN wstate :
        (wstate[w].st = "dead" /\ w \notin Range(workers)) => w \notin Range(workerPool)

-----------------------------------------------------------------------------
(* The worker's file wrapper over requested type lists and analyzer behaviours *)

\* requested types: three real categories and one no analyzer exists for
WorkerTypes == {"refactoring", "security", "performance", "bogus"}

TypeLists == UNION {[1..n -> WorkerTypes] : n \in 0..MaxTypes}

AnalyzerOutcomes == {Escapes, Silent, Finds}

WorkerBehaviours ==
    {Behaviour(init, [Quiet EXCEPT !["refactoring"] = r, !["security"] = x, !["performance"] = p]) :
        init \in {"ok", "throws"}, r \in AnalyzerOutcomes, x \in AnalyzerOutcomes,
        p \in AnalyzerOutcomes}

InitWorker ==
    \E types \in TypeLists, beh \in WorkerBehaviours :
        InitEngine(Options(Num(1), Num(1), Num(10000), ""), NoFile, types, <<beh>>)

NextWorker ==
    \/ Initialize
    \/ AnalyzeProject
    \/ \E w \in DOMAIN wstate : WorkerOnMessage(w)

SpecWorker == InitWorker /\ [][NextWorker]_vars

\* what the i-th requested type adds to a file's issues
Contribution(types, beh, i) ==
    IF types[i] \in IssueTypeSet /\ beh.an[types[i]] = Finds
    THEN AnalyzerIssues(types[i]) ELSE <<>>

\* the number of issues the requested types before the i-th add
Offset(types, beh, i) ==
    Cardinality(UNION {{<<j, k>> : k \in DOMAIN Contribution(types, beh, j)} : j \in 1..(i - 1)})

\* the issues are the findings of the analyzers that returned, each at its
\* place in request order, and nothing else
ExactlyTheReturned(issues, types, beh) ==
    /\ Len(issues) = Offset(types, beh, Len(types) + 1)
    /\ \A i \in DOMAIN types : \A k \in DOMAIN Contribution(types, beh, i) :
          issues[Offset(types, beh, i) + k] = Contribution(types, beh, i)[k]
    /\ \A k \in DOMAIN issues : beh.an[issues[k].by] # Escapes

\* C8: when the analyzer set was built, the FileResult the worker posts
\* holds exactly the findings of the requested analyzers that did not throw,
\* in request order, and nothing of an analyzer that threw
C8_ThrowingAnalyzerIsolated ==
    \A w \in DOMAIN outbox : \A n \in DOMAIN outbox[w] :
        LET m == outbox[w][n]
        IN  (~m.error /\ fileBeh[m.result.file].init = "ok")
                => ExactlyTheReturned(m.result.issues, issueTypes, fileBeh[m.result.file])

\* a posted result for three distinct requested analyzers of which exactly
\* one threw and the two others had findings
C8_Witness ==
    \E w \in DOMAIN outbox : \E n \in DOMAIN outbox[w] :
        LET m == outbox[w][n]
            beh == fileBeh[m.result.file]
        IN  /\ ~m.error
            /\ Len(issueTypes) = 3
            /\ Cardinality(Range(issueTypes)) = 3
            /\ Range(issueTypes) \subseteq IssueTypeSet
            /\ Cardinality({i \in 1..3 : beh.an[issueTypes[i]] = Escapes}) = 1
            /\ Cardinality({i \in 1..3 : beh.an[issueTypes[i]] = Finds}) = 2
            /\ beh.an[issueTypes[1]] = Escapes
            /\ Len(m.result.issues) = 2

-----------------------------------------------------------------------------
(* The file cap over discovered-file counts and supplied maxFiles values *)

CapValues ==
    {Num(-1), Num(0), Num(2), Num(MaxFilesMin - 1), Num(MaxFilesMin), Num(MaxFilesMin + 1),
     Num(MaxFilesMin + 2), Num(5000)}

CapSizes == (0..CapSlack) \cup ((MaxFilesMin - 1)..(MaxFilesMin + CapSlack))

\* one batch holds every file, so the first turn of analyzeProject submits
\* all of filesToAnalyze
InitCap ==
    \E m \in CapValues, n \in CapSizes :
        InitEngine(Options(Num(1000), Num(1), m, ""), NoFile, IssueTypeValues,
                   [i \in 1..n |-> Behaviour("ok", Quiet)])

NextCap ==
    \/ Initialize
    \/ AnalyzeProject

SpecCap == InitCap /\ [][NextCap]_vars

Submitted == {f \in DOMAIN promise : promise[f].st # "none"}

\* the run analyzes the first 'cap' of the n discovered files, and warns
\* exactly when that leaves files out
CappedAt(cap, n) ==
    LET a == Min(cap, n)
    IN  /\ Len(allFiles) = n
        /\ Len(filesToAnalyze) = a
        /\ \A i \in 1..a : filesToAnalyze[i] = allFiles[i]
        /\ Submitted = {allFiles[i] : i \in 1..a}
        /\ ("cap" \in Range(warnings)) <=> (cap < n)
        /\ analysis.returned => (analysis.analyzedFiles = a /\ analysis.totalFiles = n)

\* C10 as stated: with N discovered files and a caller-supplied maxFiles = M
\* (a count, M >= 1),
\* M < N gives analyzedFiles = M, the first M files submitted and a warning;
\* M >= N gives analyzedFiles = N and no warning; totalFiles = N
C10_CapAtSuppliedMax ==
    (phase \in {"running", "done"} /\ IsNum(supplied.maxFiles))
        => LET m == supplied.maxFiles.v
               n == Len(fileBeh)
           IN  m >= 1 =>
               /\ m < n => (Len(filesToAnalyze) = m /\ "cap" \in Range(warnings))
               /\ m >= n => (Len(filesToAnalyze) = n /\ "cap" \notin Range(warnings))
               /\ Len(allFiles) = n

\* C10, amended: with N discovered files, an integer maxFiles = M passed to
\* the constructor and no configuration file, the cap is E = max(100, M):
\* E < N gives analyzedFiles = E, the first E files submitted and a warning;
\* E >= N gives analyzedFiles = N and no warning; totalFiles = N
C10_CapAtClampedMax ==
    (phase \in {"running", "done"} /\ IsNum(supplied.maxFiles))
        => CappedAt(Max(MaxFilesMin, supplied.maxFiles.v), Len(fileBeh))

\* a run that leaves files out although the caller asked for a cap below
\* the floor
C10_Witness ==
    /\ phase = "running"
    /\ supplied.maxFiles.v < MaxFilesMin
    /\ Len(filesToAnalyze) = MaxFilesMin
    /\ Len(allFiles) > MaxFilesMin
    /\ "cap" \in Range(warnings)
    /\ Cardinality(Submitted) = MaxFilesMin

-----------------------------------------------------------------------------
(* createBatches over file counts and batch sizes *)

\* one worker; the batch size is what the constructor leaves of b
InitBatch ==
    \E b \in 1..MaxBatchSize, n \in 0..MaxBatchFiles :
        InitEngine(Options(Num(b), Num(1), Num(10000), ""), NoFile, IssueTypeValues,
                   [i \in 1..n |-> Behaviour("ok", Quiet)])

NextBatch ==
    \/ Initialize
    \/ AnalyzeProject

SpecBatch == InitBatch /\ [][NextBatch]_vars

RECURSIVE Flatten(_)
Flatten(seqs) == IF seqs = <<>> THEN <<>> ELSE Head(seqs) \o Flatten(Tail(seqs))

Ceil(f, b) == (f + b - 1) \div b

\* C11: createBatches splits F files with batch size B >= 1 into exactly
\* ceil(F/B) batches; every batch but the last has B files, the last is not
\* empty, and the batches concatenated are the input list (no batch for F = 0)
C11_BatchesPartition ==
    (phase \in {"running", "done"} /\ IsNum(options.batchSize) /\ options.batchSize.v >= 1)
        => LET B == options.batchSize.v
               F == Len(filesToAnalyze)
           IN  /\ Len(batches) = Ceil(F, B)
               /\ \A i \in 1..(Len(batches) - 1) : Len(batches[i]) = B
               /\ \A i \in DOMAIN batches : Len(batches[i]) >= 1
               /\ Flatten(batches) = filesToAnalyze
               /\ F = 0 => batches = <<>>

\* three batches or more, the last one shorter than the batch size
C11_Witness ==
    /\ phase = "running"
    /\ options.batchSize.v >= 2
    /\ Len(batches) >= 3
    /\ Len(batches[Len(batches)]) < options.batchSize.v
    /\ Len(batches[1]) = options.batchSize.v

-----------------------------------------------------------------------------
(* Runs over every order of the file list and of the jobs' completion *)

Orderings(n) == {p \in [1..n -> 1..n] : \A i, k \in 1..n : p[i] = p[k] => i = k}

\* the files of the full runs in every order of discovery; no worker faults,
\* and every worker answers, with a result or an error, before its job's timer
InitOrder ==
    \E p \in Orderings(MaxDiscovered), opts \in RunOptions :
        InitEngine(opts, NoFile, IssueTypeValues, [i \in 1..MaxDiscovered |-> RunBehaviour(p[i])])

NextOrder ==
    \/ Initialize
    \/ AnalyzeProject
    \/ \E f \in 1..Len(fileBeh) : Poll(f)
    \/ \E w \in DOMAIN wstate : WorkerOnMessage(w)
    \/ \E w \in DOMAIN wstate : OnMessage(w)

SpecOrder == InitOrder /\ [][NextOrder]_vars

\* the outcome of a file's job: the issues of its FileResult, none if it failed
OutcomeOf(f) == IF promise[f].st = "fulfilled" THEN promise[f].value.issues ELSE <<>>

\* the multiset of the outcomes: the distinct outcomes and how often each occurs
Outcomes == {OutcomeOf(f) : f \in Range(filesToAnalyze)}
Multiplicity(o) == Cardinality({f \in Range(filesToAnalyze) : OutcomeOf(f) = o})

RECURSIVE BagCount(_, _)
\* the findings of category t in a multiset of outcomes
BagCount(S, t) ==
    IF S = {} THEN 0
    ELSE LET o == CHOOSE x \in S : TRUE
         IN  Multiplicity(o) * Cardinality({k \in DOMAIN o : o[k].type = t})
                + BagCount(S \ {o}, t)

\* C12: the summary analyzeProject returns is a function of the multiset of
\* the per-file outcomes alone: it is the same for every order of the file
\* list and every order in which the jobs of a batch complete
C12_SummaryOrderIndependent ==
    analysis.returned =>
        analysis.summary =
            [typeErrors |-> BagCount(Outcomes, "type-error"),
             jsFiles |-> BagCount(Outcomes, "js-to-ts"),
             refactoringOpportunities |-> BagCount(Outcomes, "refactoring"),
             securityIssues |-> BagCount(Outcomes, "security"),
             performanceIssues |-> BagCount(Outcomes, "performance")]

\* a returned analysis of a file list that is not in its first order, whose
\* first batch completed second file first, with findings in two results
C12_Witness ==
    /\ analysis.returned
    /\ Len(analysis.results) >= 2
    /\ fileBeh[1] # RunBehaviour(1)
    /\ Len(progress) >= 2
    /\ progress[1].currentFile = filesToAnalyze[2]
    /\ progress[2].currentFile = filesToAnalyze[1]

-----------------------------------------------------------------------------
(* Progress reports *)

\* C13: progressCallback is called once after each settled file, fulfilled
\* or rejected: the calls made so far are as many as the settled files, and
\* a finished run over F files has made F calls, the last with current = total
C13_ProgressPerSettledFile ==
    /\ phase \in {"running", "done"} =>
          Len(progress) = Cardinality({f \in Range(filesToAnalyze) : IsSettled(promise[f])})
    /\ phase = "done" =>
          /\ Len(progress) = Len(filesToAnalyze)
          /\ Len(progress) > 0 => progress[Len(progress)].current = progress[Len(progress)].total

-----------------------------------------------------------------------------
(* The analyzers over parse outcomes and rule outcomes *)

\* the analyzers asked for, one per run
AnalyzerNames == {"refactoring", "js-to-ts", "performance", "type-error", "security"}

RuleOutcomes == {"none", "finds", "throws"}

AnalyzerInputs ==
    {Runs(parse, rules) :
        parse \in {"ok", "null", "throws"},
        rules \in UNION {[1..n -> RuleOutcomes] : n \in 0..MaxRules}}

InitAnalyzer ==
    \E a \in AnalyzerNames, in \in AnalyzerInputs :
        InitEngine(Options(Num(1), Num(1), Num(10000), ""), NoFile, <<a>>,
                   <<Behaviour("ok", [Quiet EXCEPT ![a] = in])>>)

NextAnalyzer ==
    \/ Initialize
    \/ AnalyzeProject
    \/ \E w \in DOMAIN wstate : WorkerOnMessage(w)

SpecAnalyzer == InitAnalyzer /\ [][NextAnalyzer]_vars

\* an exception is raised inside the analyzer: by the parse, or by a rule
RaisesInside(in) ==
    \/ in.parse = "throws"
    \/ in.parse = "ok" /\ \E k \in DOMAIN in.rules : in.rules[k] = "throws"

\* the places of the failure findings in a list of issues
FailuresIn(issues) == {k \in DOMAIN issues : issues[k].n = 0 /\ issues[k].severity = "error"}

\* C14: an analyzer's analyzeFile never throws: when the parse or a rule
\* raises an exception the FileResult it returns holds exactly one failure
\* finding, of severity ERROR and of the analyzer's own category, and when
\* nothing is raised it holds none
C14_AnalyzerNeverThrows ==
    \A w \in DOMAIN outbox : \A n \in DOMAIN outbox[w] :
        LET m == outbox[w][n]
            a == issueTypes[1]
            in == fileBeh[m.result.file].an[a]
            found == m.result.issues
        IN  ~m.error =>
              /\ RaisesInside(in) =>
                    /\ Cardinality(FailuresIn(found)) = 1
                    /\ \A k \in FailuresIn(found) : found[k].type = a /\ found[k].by = a
              /\ ~RaisesInside(in) => FailuresIn(found) = {}
              /\ \A k \in DOMAIN found : found[k].type = a

\* a result of an analyzer whose second rule threw after the first had a
\* finding: the finding, then the failure finding
C14_Witness ==
    \E w \in DOMAIN outbox : \E n \in DOMAIN outbox[w] :
        LET m == outbox[w][n]
            in == fileBeh[m.result.file].an[issueTypes[1]]
        IN  /\ ~m.error
            /\ in.parse = "ok"
            /\ Len(in.rules) >= 2
            /\ in.rules[1] = "finds"
            /\ in.rules[2] = "throws"
            /\ Len(m.result.issues) = 2
            /\ m.result.issues[2] = FailureFinding(issueTypes[1])

-----------------------------------------------------------------------------
(* Watch mode: the watcher's events, the debounce timer and a clock in seconds *)

engine == <<supplied, options, configFile, workers, workerPool, activeJobs, jobId, jobs, timers,
            wstate, inbox, outbox, replacing, faults, phase, issueTypes, fileBeh,
            allFiles, filesToAnalyze, batches, batchIndex, promise, results,
            processedFiles, progress, warnings, memChecks, analysis, gc, cli, clock>>

\* a scheduleAnalysis that leaves a timer that is already armed alone
ScheduleAnalysisNoRestart(w) ==
    [w EXCEPT !.timer = IF w.timer >= 0 THEN w.timer ELSE DebounceSeconds]

\* scheduleAnalysis: the armed timer, if any, is cleared and a new one armed
ScheduleAnalysis(w) == [w EXCEPT !.timer = DebounceSeconds]

\* watchMode(projectPath, issueTypes, changeCallback): the watcher is created
\* and its three listeners registered
WatchMode ==
    /\ Alive
    /\ phase \in {"ready", "done"}
    /\ CliAllows("watching")
    /\ ~watch.on
    /\ watch' = [watch EXCEPT !.on = TRUE]
    /\ UNCHANGED engine

\* an 'add', 'change' or 'unlink' event of the watcher
FsEvent ==
    /\ Alive
    /\ watch.on
    /\ Len(watch.events) < MaxWatchEvents
    /\ watch' = [ScheduleAnalysis(watch) EXCEPT !.events = Append(@, watch.now)]
    /\ UNCHANGED engine

\* a second passes; a timer that is due fires before the clock goes on
Tick ==
    /\ Alive
    /\ watch.on
    /\ watch.timer # 0
    /\ watch.now < MaxWatchTime
    /\ watch' = [watch EXCEPT !.now = @ + 1, !.timer = IF @ > 0 THEN @ - 1 ELSE @]
    /\ UNCHANGED engine

\* the debounce timer fires: its callback calls analyzeProject, which starts
\* the discovery of the files
DebounceFires ==
    /\ Alive
    /\ watch.on
    /\ watch.timer = 0
    /\ watch' = [watch EXCEPT !.timer = -1,
                              !.runs = Append(@, [at |-> watch.now, after |-> Len(watch.events)]),
                              !.discovering = @ + 1]
    /\ UNCHANGED engine

\* the discovery of a watch-triggered analyzeProject returns, after any
\* earlier run has returned: it fails, analyzeProject rejects and the timer
\* callback's catch logs it; or the run starts
WatchDiscovered ==
    /\ Alive
    /\ watch.discovering > 0
    /\ ~watch.running
    /\ phase \in {"ready", "done"}
    /\ \E fails \in BOOLEAN, cb \in BOOLEAN, high \in HeapLevels :
         LET e == [Eng EXCEPT !.watch.discovering = @ - 1]
         IN  Apply(IF fails
                   THEN WatchCatch([e EXCEPT !.watch.outcomes =
                                        Append(@, [kind |-> "rejected", at |-> watch.now])],
                                   "analysis")
                   ELSE StartRun([e EXCEPT !.watch.running = TRUE, !.watch.cbThrows = cb], high))
    /\ UNCHANGED <<supplied, options, configFile, workers, wstate, outbox, replacing, faults,
                   issueTypes, fileBeh>>

\* one worker, at most one file; the workers answer before the jobs' timers
InitWatch ==
    \E n \in 0..1 :
        InitEngine(Options(Num(2), Num(1), Num(10000), ""), NoFile, IssueTypeValues,
                   [i \in 1..n |-> RunBehaviour(i)])

NextWatch ==
    \/ Initialize
    \/ WatchMode
    \/ FsEvent
    \/ Tick
    \/ DebounceFires
    \/ WatchDiscovered
    \/ \E w \in DOMAIN wstate : WorkerOnMessage(w)
    \/ \E w \in DOMAIN wstate : OnMessage(w)

SpecWatch == InitWatch /\ [][NextWatch]_vars

\* the runs whose timer was armed by the k-th event
RunsAfter(k) == {i \in DOMAIN watch.runs : watch.runs[i].after = k}

\* the k-th event ended a burst: no event followed within the debounce interval
EndsBurst(k) ==
    k = Len(watch.events) \/ watch.events[k + 1] - watch.events[k] > DebounceSeconds

\* C15: every file-system event restarts the debounce timer: an event
\* followed by another within less than the interval starts no run, the
\* last event of a burst starts exactly one, and that run starts when the
\* interval has passed since that event
C15_DebouncedOnce ==
    /\ \A k \in DOMAIN watch.events :
          /\ Cardinality(RunsAfter(k)) <= 1
          /\ (k < Len(watch.events) /\ watch.events[k + 1] - watch.events[k] < DebounceSeconds)
                => RunsAfter(k) = {}
          /\ (EndsBurst(k) /\ watch.now - watch.events[k] > DebounceSeconds)
                => Cardinality(RunsAfter(k)) = 1
          /\ \A i \in RunsAfter(k) : watch.runs[i].at = watch.events[k] + DebounceSeconds
    /\ \A i \in DOMAIN watch.runs : watch.runs[i].after \in DOMAIN watch.events
    /\ watch.timer >= 0 =>
          /\ watch.events # <<>>
          /\ watch.timer = DebounceSeconds - (watch.now - watch.events[Len(watch.events)])

\* a burst of three events, each less than the interval after the one
\* before, and the one run it started
C15_Witness ==
    /\ Len(watch.events) = 3
    /\ watch.events[2] - watch.events[1] = 1
    /\ watch.events[3] - watch.events[2] = 1
    /\ Len(watch.runs) = 1
    /\ watch.runs[1].at = watch.events[3] + DebounceSeconds
    /\ watch.now > watch.runs[1].at

\* C16: a watch-triggered run that fails, because analyzeProject rejects or
\* the change callback throws, is logged and nothing else: the process and
\* the watcher go on, and an event after the failure starts a debounced run
\* like any other
C16_WatchSurvivesFailure ==
    /\ phase # "crashed"
    /\ watch.runs # <<>> => watch.on
    /\ Len(watch.log) = Cardinality({i \in DOMAIN watch.outcomes : watch.outcomes[i].kind # "ok"})
    /\ \A i \in DOMAIN watch.outcomes : \A k \in DOMAIN watch.events :
          (/\ watch.outcomes[i].kind # "ok"
           /\ watch.outcomes[i].at <= watch.events[k]
           /\ EndsBurst(k)
           /\ watch.now - watch.events[k] > DebounceSeconds)
            => \E r \in DOMAIN watch.runs :
                  /\ watch.runs[r].after = k
                  /\ watch.runs[r].at >= watch.outcomes[i].at

\* a run failed by rejection, a later one by a throwing callback, and a
\* third run was started by an event after both
C16_Witness ==
    /\ Len(watch.outcomes) >= 2
    /\ watch.outcomes[1].kind = "rejected"
    /\ watch.outcomes[2].kind = "callback threw"
    /\ Len(watch.runs) = 3
    /\ watch.events[3] >= watch.outcomes[2].at
    /\ watch.log = <<"analysis", "callback">>

-----------------------------------------------------------------------------
(* Memory checks: runs with the heap above or below the threshold, with and
   without the garbage-collection hook *)

\* one worker, batches of one file
InitMemory ==
    \E n \in 0..MaxDiscovered, hook \in BOOLEAN :
        InitState(Options(Num(1), Num(1), Num(10000), ""), NoFile, IssueTypeValues,
                  [i \in 1..n |-> RunBehaviour(i)], hook, BOOLEAN)

NextMemory ==
    \/ Initialize
    \/ AnalyzeProject
    \/ \E w \in DOMAIN wstate : WorkerOnMessage(w)
    \/ \E w \in DOMAIN wstate : OnMessage(w)
    \/ \E id \in timers : Timeout(id)

SpecMemory == InitMemory /\ [][NextMemory]_vars

\* a file's job was fulfilled with at least one issue
HasFindings(f) == promise[f].st = "fulfilled" /\ Len(promise[f].value.issues) > 0

\* the results the files and the outcomes of their jobs determine: the
\* FileResults with issues, in file order
ResultsOfOutcomes ==
    LET kept == SelectSeq(filesToAnalyze, HasFindings)
    IN  [i \in 1..Len(kept) |-> promise[kept[i]].value]

\* C17: a memory check never halts or fails a run, and what a run returns
\* is determined by the files and the outcomes of their jobs alone, whatever
\* the heap level at the checks and with or without the garbage-collection
\* hook; a heap above the threshold adds a warning and nothing else
C17_MemoryCheckHarmless ==
    /\ phase \notin {"rejected", "crashed"}
    /\ Cardinality({i \in DOMAIN warnings : warnings[i] = "memory"})
          = Cardinality({i \in DOMAIN memChecks : memChecks[i].high})
    /\ phase = "running" =>
          \E i \in DOMAIN batches[batchIndex + 1] : ~IsSettled(promise[batches[batchIndex + 1][i]])
    /\ analysis.returned =>
          /\ analysis.results = ResultsOfOutcomes
          /\ analysis.summary.refactoringOpportunities = BagCount(Outcomes, "refactoring")
          /\ analysis.summary.performanceIssues = BagCount(Outcomes, "performance")
          /\ analysis.summary.typeErrors = BagCount(Outcomes, "type-error")
          /\ analysis.analyzedFiles = Len(filesToAnalyze)
          /\ analysis.totalFiles = Len(fileBeh)

\* a returned analysis with results, after a check above the threshold
\* during the run and a call of the hook
C17_Witness ==
    /\ analysis.returned
    /\ Len(analysis.results) >= 2
    /\ gc.calls >= 1
    /\ \E i \in DOMAIN memChecks : memChecks[i].high /\ memChecks[i].at = 0

-----------------------------------------------------------------------------
(* The analyze command of the CLI *)

\* Object.values(IssueType).find(t => t === type ||
\*     t.replace('-', '_').toUpperCase() === type.toUpperCase()), for the
\* arguments of these runs; "" when nothing is found.  replace() changes the
\* first '-' only
TypeOfArg(arg) ==
    CASE arg \in IssueTypeSet -> arg
      [] arg = "TYPE_ERROR" -> "type-error"
      [] arg = "Security" -> "security"
      [] OTHER -> ""

\* is some requested type not found
InvalidTypes(types) ==
    "all" \notin Range(types) /\ \E i \in DOMAIN types : TypeOfArg(types[i]) = ""

\* the issueTypes the action passes on
ParseTypes(types) ==
    IF "all" \in Range(types) THEN IssueTypeValues
    ELSE [i \in DOMAIN types |-> TypeOfArg(types[i])]

\* the analyze action up to 'await engine.initialize()': the path and the
\* types are validated, the engine is constructed, initialize() is called
CliStart ==
    /\ cli.step = "start"
    /\ IF ~cli.argv.pathExists
       THEN Apply(ProcessExit(Eng, 1, "Project path does not exist")) /\ UNCHANGED issueTypes
       ELSE IF InvalidTypes(cli.options.types)
       THEN Apply(ProcessExit(Eng, 1, "Invalid issue type")) /\ UNCHANGED issueTypes
       ELSE /\ Apply([Eng EXCEPT !.cli.step = "initializing"])
            /\ issueTypes' = ParseTypes(cli.options.types)
    /\ UNCHANGED <<supplied, options, configFile, workers, wstate, outbox, replacing, faults, fileBeh>>

\* 'await engine.initialize()' throws: the catch of the action
CliInitializeThrows ==
    /\ cli.step = "initializing"
    /\ cli.argv.initFails
    /\ Apply(ProcessExit(Eng, 1, "Analysis failed"))
    /\ UNCHANGED <<supplied, options, configFile, workers, wstate, outbox, replacing, faults,
                   issueTypes, fileBeh>>

\* 'await engine.analyzeProject(...)' throws because discovery fails: the
\* catch of the action
CliAnalysisThrows ==
    /\ cli.step = "discovering"
    /\ phase = "ready"
    /\ cli.argv.discoveryFails
    /\ Apply(ProcessExit(Eng, 1, "Analysis failed"))
    /\ UNCHANGED <<supplied, options, configFile, workers, wstate, outbox, replacing, faults,
                   issueTypes, fileBeh>>

\* one 'await reportGenerator.generateReport(results, format)' of the report
\* loop returns or throws; a throw ends the loop in the inner catch
CliGenerateReport ==
    /\ Alive
    /\ cli.step = "reporting"
    /\ cli.todo # <<>>
    /\ LET format == Head(cli.todo)
           e == [Eng EXCEPT !.cli.todo = Tail(@)]
       IN  Apply(IF format = cli.argv.reportFails
                 THEN CliAfterReports([e EXCEPT !.cli.failed = Append(@, "Failed to generate reports")])
                 ELSE IF Tail(cli.todo) = <<>>
                 THEN CliAfterReports([e EXCEPT !.cli.reports = Append(@, format)])
                 ELSE [e EXCEPT !.cli.reports = Append(@, format)])
    /\ UNCHANGED <<supplied, options, configFile, workers, wstate, outbox, replacing, faults,
                   issueTypes, fileBeh>>

\* nothing keeps the event loop of the main thread alive: no running worker
\* thread, no armed timer, no suspended replaceWorker
EventLoopEmpty ==
    /\ \A w \in DOMAIN wstate : wstate[w].st = "dead"
    /\ timers = {}
    /\ replacing = {}
    /\ \A f \in DOMAIN promise : promise[f].st # "waiting"

\* the action has returned and the event loop is empty: the process ends
\* with exit code 0
ProcessExits ==
    /\ Alive
    /\ cli.step = "returned"
    /\ EventLoopEmpty
    /\ Apply(ProcessExit(Eng, 0, ""))
    /\ UNCHANGED <<supplied, options, configFile, workers, wstate, outbox, replacing, faults,
                   issueTypes, fileBeh>>

\* the command lines of these runs
CliArguments ==
    [pathExists : BOOLEAN,
     types : {<<"all">>, <<"security", "TYPE_ERROR">>, <<"performance", "bogus">>},
     output : {"all", "json"},
     noReports : BOOLEAN,
     watch : BOOLEAN,
     initFails : BOOLEAN,
     discoveryFails : BOOLEAN,
     reportFails : {"", "html"}]

\* '--workers 1' and '--workers x' (parseInt gives NaN), a project of no
\* file or one file
InitCli ==
    \E argv \in CliArguments, w \in {Num(1), NaN}, n \in 0..1 :
        /\ gc = [hook |-> FALSE, calls |-> 0, levels |-> {FALSE}]
        /\ cli = [NoCli EXCEPT !.step = "start", !.argv = argv, !.options = CommanderOptions(argv)]
        /\ supplied = Options(Num(100), w, Num(10000), "")
        /\ options = Constructor(supplied)
        /\ configFile = NoFile
        /\ issueTypes = <<>>
        /\ fileBeh = [i \in 1..n |-> RunBehaviour(i)]
        /\ workers = <<>> /\ workerPool = <<>> /\ activeJobs = {} /\ jobId = 0 /\ jobs = <<>>
        /\ timers = {} /\ wstate = <<>> /\ inbox = <<>> /\ outbox = <<>> /\ replacing = {}
        /\ faults = 0 /\ phase = "constructed"
        /\ allFiles = <<>> /\ filesToAnalyze = <<>> /\ batches = <<>> /\ batchIndex = 0
        /\ promise = <<>> /\ results = <<>> /\ processedFiles = 0 /\ progress = <<>>
        /\ warnings = <<>> /\ memChecks = <<>> /\ analysis = NoAnalysis /\ watch = NoWatch
        /\ clock = NoClock

NextCli ==
    \/ CliStart
    \/ Initialize
    \/ CliInitializeThrows
    \/ AnalyzeProject
    \/ CliAnalysisThrows
    \/ \E f \in 1..Len(fileBeh) : Poll(f)
    \/ \E w \in DOMAIN wstate : WorkerOnMessage(w)
    \/ \E w \in DOMAIN wstate : OnMessage(w)
    \/ \E id \in timers : Timeout(id)
    \/ CliGenerateReport
    \/ WatchMode
    \/ ProcessExits

SpecCli == InitCli /\ [][NextCli]_vars

\* the command line names a path that does not exist or a type that is not
\* known, or initialization or analysis throws
MustFail(argv) ==
    \/ ~argv.pathExists
    \/ InvalidTypes(argv.types)
    \/ argv.initFails
    \/ argv.discoveryFails

\* C18: the analyze command ends the process with exit code 1 when the
\* path does not exist, a requested type is not known, or initialization or
\* analysis throws, and with exit code 0 in every other case (watch mode,
\* which is meant to run on, left aside): the exit code is never the wrong
\* one, and when nothing more can happen the process has ended
C18_ExitCodes ==
    /\ cli.exit = 1 => MustFail(cli.argv)
    /\ cli.exit = 0 => ~MustFail(cli.argv)
    /\ (~cli.argv.watch /\ ~ENABLED NextCli) => cli.exit \in {0, 1}

\* C19: with --no-reports no report is generated; without it, once the
\* report step is over and no report failed, one report was generated for
\* each selected format
C19_NoReportsSkipsReports ==
    /\ cli.argv.noReports => cli.reports = <<>>
    /\ (~cli.argv.noReports /\ cli.argv.reportFails = "" /\ cli.step \in {"returned", "watching"})
          => cli.reports = OutputFormats(cli.argv.output)

-----------------------------------------------------------------------------
(* Jobs in flight *)

\* C20: the pending map never holds more jobs than the configured number
\* of workers, also while workers fault and are replaced
C20_PendingWithinWorkerCount ==
    phase \in {"ready", "running", "done"} =>
        Cardinality(activeJobs) <= PoolSize(options.workerCount)

-----------------------------------------------------------------------------
(* Workers and pending jobs *)

\* the pending jobs worker w holds
PendingOn(w) == {id \in activeJobs : jobs[id].worker = w}

\* C21: a worker holds at most one pending job, a worker in the free pool
\* holds none, and no worker is in the free pool twice: a worker is handed
\* to a new job only after its previous job has left the pending map
C21_OneJobPerWorker ==
    \A w \in DOMAIN wstate :
        /\ Cardinality(PendingOn(w)) <= 1
        /\ w \in Range(workerPool) => PendingOn(w) = {}
        /\ Count(workerPool, w) <= 1

\* a worker whose first job timed out holds a second job, and its late
\* answer to the first job has been delivered
C21_Witness ==
    \E id1 \in 1..jobId, id2 \in 1..jobId :
        /\ id1 < id2
        /\ jobs[id1].worker = jobs[id2].worker
        /\ jobs[id1].settled = <<"timeout">>
        /\ id2 \in activeJobs
        /\ wstate[jobs[id1].worker].st = "alive"
        /\ \A i \in DOMAIN inbox[jobs[id1].worker] : inbox[jobs[id1].worker][i].jobId > id1
        /\ \A i \in DOMAIN outbox[jobs[id1].worker] : outbox[jobs[id1].worker][i].jobId > id1

-----------------------------------------------------------------------------
(* Job timeouts against the clock: one worker, batches of two files *)

InitTimeout ==
    \E n \in 0..MaxDiscovered :
        InitProcess(Options(Num(2), Num(1), Num(10000), ""), NoFile, IssueTypeValues,
                    [i \in 1..n |-> RunBehaviour(i)], FALSE, {FALSE}, TRUE)

\* the next moment: a step later, or when the next timer is due if that is
\* earlier
NextMoment ==
    LET later == clock.now + ClockStep
    IN  IF \E id \in timers : jobs[id].due < later
        THEN CHOOSE t \in {jobs[id].due : id \in timers} :
                \A id \in timers : t <= jobs[id].due
        ELSE later

\* time passes during a run; a timer that is due fires before the clock
\* goes on
ClockTick ==
    /\ Alive
    /\ clock.on
    /\ phase = "running"
    /\ clock.now < MaxClock
    /\ \A id \in timers : jobs[id].due > clock.now
    /\ clock' = [clock EXCEPT !.now = NextMoment]
    /\ UNCHANGED <<supplied, options, configFile, workers, workerPool, activeJobs, jobId, jobs,
                   timers, wstate, inbox, outbox, replacing, faults, phase, issueTypes, fileBeh,
                   allFiles, filesToAnalyze, batches, batchIndex, promise, results,
                   processedFiles, progress, warnings, memChecks, analysis, watch, gc, cli>>

NextTimeout ==
    \/ Initialize
    \/ AnalyzeProject
    \/ \E f \in 1..Len(fileBeh) : Poll(f)
    \/ \E w \in DOMAIN wstate : WorkerOnMessage(w)
    \/ \E w \in DOMAIN wstate : OnMessage(w)
    \/ \E id \in timers : Timeout(id)
    \/ ClockTick

SpecTimeout == InitTimeout /\ [][NextTimeout]_vars

\* C22: a file whose job has not settled was submitted to the pool at most
\* one timeout delay ago, whether it got a worker at once or had to wait
\* for one: at the latest one timeout delay after submission it has failed
C22_FailsWithinTimeoutOfSubmission ==
    \A f \in DOMAIN promise :
        promise[f].st \in {"waiting", "pending"}
            => clock.now - clock.submitted[f] <= JobTimeoutSeconds

-----------------------------------------------------------------------------
(* Worker deaths: 'error' events and workers that end themselves, on one
   worker with batches of two files *)

InitFault ==
    \E n \in 0..MaxDiscovered :
        InitEngine(Options(Num(2), Num(1), Num(10000), ""), NoFile, IssueTypeValues,
                   [i \in 1..n |-> RunBehaviour(i)])

NextFault ==
    \/ Initialize
    \/ AnalyzeProject
    \/ \E f \in 1..Len(fileBeh) : Poll(f)
    \/ \E w \in DOMAIN wstate : WorkerOnMessage(w)
    \/ \E w \in DOMAIN wstate : OnMessage(w)
    \/ \E id \in timers : Timeout(id)
    \/ \E w \in DOMAIN wstate : WorkerFault(w, MaxDeaths)
    \/ \E w \in DOMAIN wstate : WorkerExits(w, MaxDeaths)
    \/ \E r \in replacing : ReplaceWorker(r)

SpecFault == InitFault /\ [][NextFault]_vars

\* the event loop of the main thread runs what is ready: delivered messages,
\* timers, polls and the continuation of replaceWorker.  A worker may never
\* answer
EngineTurn ==
    \/ \E f \in 1..Len(fileBeh) : Poll(f)
    \/ \E w \in DOMAIN wstate : OnMessage(w)
    \/ \E id \in timers : Timeout(id)
    \/ \E r \in replacing : ReplaceWorker(r)

SpecFaultFair == SpecFault /\ WF_vars(EngineTurn)

\* the workers replaceWorker created
Replacements == {w \in DOMAIN wstate : ~wstate[w].listener}

\* a dead worker's place in the pool is being refilled, or was
Replaced(w) == (\E r \in replacing : r.worker = w) \/ w \notin Range(workers)

\* C23: a fault of a replacement worker is handled like a fault of an
\* original one: the process goes on and the worker is replaced again
C23_ReplacementFaultHandled ==
    \A w \in Replacements :
        wstate[w].st = "dead" => (phase # "crashed" /\ Replaced(w))

\* C24: every worker that died, by a fault reported as 'error' or by ending
\* itself, is replaced
C24_EveryDeathReplaced ==
    \A w \in DOMAIN wstate \ Replacements :
        wstate[w].st = "dead" => Replaced(w)

\* job id is pending on a dead worker that has not answered it
HeldByDeadWorker(id) ==
    /\ id \in activeJobs
    /\ wstate[jobs[id].worker].st = "dead"
    /\ \A i \in DOMAIN outbox[jobs[id].worker] : outbox[jobs[id].worker][i].jobId # id

\* the caller of job id has received a failure
JobFailed(id) == id <= jobId /\ promise[jobs[id].file].st = "rejected"

\* C25: a job that is pending on a worker that died before answering it is
\* eventually failed: its promise is rejected
C25_FaultedJobFails ==
    \A id \in 1..MaxDiscovered : HeldByDeadWorker(id) ~> JobFailed(id)

\* C26: a run on a pool of at least one worker ends: every submitted file
\* settles, also a file that waited for a worker and a file whose worker
\* never answers, and analyzeProject returns
C26_RunReturns ==
    (phase = "running" /\ PoolSize(options.workerCount) >= 1)
        ~> (phase = "done" /\ analysis.returned
            /\ \A f \in Range(filesToAnalyze) : IsSettled(promise[f]))

-----------------------------------------------------------------------------
(* The worker's file wrapper when the analyzers cannot be set up *)

\* the message answers a job for whose file building the parser throws
AnswersFailedSetup(m) == fileBeh[jobs[m.jobId].file].init = "throws"

\* C27: when initializeAnalyzers throws for a job, the worker posts a normal
\* result with the job's file path and no findings, not an error, and goes on
C27_SetupFailureGivesEmptyResult ==
    \A w \in DOMAIN outbox : \A n \in DOMAIN outbox[w] :
        LET m == outbox[w][n]
        IN  AnswersFailedSetup(m) =>
                /\ ~m.error
                /\ m.result = [file |-> jobs[m.jobId].file, issues |-> <<>>]
                /\ wstate[w].st = "alive"

\* such an answer for a file on which a requested analyzer would have had
\* a finding
C27_Witness ==
    \E w \in DOMAIN outbox : \E n \in DOMAIN outbox[w] :
        /\ AnswersFailedSetup(outbox[w][n])
        /\ ~outbox[w][n].error
        /\ \E i \in DOMAIN issueTypes :
              /\ issueTypes[i] \in IssueTypeSet
              /\ fileBeh[jobs[outbox[w][n].jobId].file].an[issueTypes[i]] = Finds

-----------------------------------------------------------------------------
(* The results of a run *)

\* the FileResults a returned analysis holds for file f
ResultsFor(f) == {i \in DOMAIN analysis.results : analysis.results[i].file = f}

\* C28: a returned analysis holds exactly one FileResult for each analyzed
\* file whose job fulfilled with at least one finding, the one its job
\* fulfilled with, and none for a file whose job fulfilled without findings
\* or failed; results.length <= analyzedFiles <= totalFiles
C28_ResultsAreFilesWithFindings ==
    analysis.returned =>
        /\ \A f \in Range(filesToAnalyze) :
              IF HasFindings(f)
              THEN /\ Cardinality(ResultsFor(f)) = 1
                   /\ \A i \in ResultsFor(f) : analysis.results[i] = promise[f].value
              ELSE ResultsFor(f) = {}
        /\ \A i \in DOMAIN analysis.results :
              /\ analysis.results[i].file \in Range(filesToAnalyze)
              /\ Len(analysis.results[i].issues) > 0
        /\ Len(analysis.results) <= analysis.analyzedFiles
        /\ analysis.analyzedFiles <= analysis.totalFiles

\* a returned analysis of three files: one retained, one fulfilled without
\* findings, one failed
C28_Witness ==
    /\ analysis.returned
    /\ analysis.analyzedFiles = 3
    /\ Len(analysis.results) = 1
    /\ \E f \in Range(filesToAnalyze) : promise[f].st = "fulfilled" /\ ~HasFindings(f)
    /\ \E f \in Range(filesToAnalyze) : promise[f].st = "rejected"

-----------------------------------------------------------------------------
(* The sequence of progress reports *)

\* p <= q for two percentages
NotAbove(p, q) == p.num * q.den <= q.num * p.den

\* C29: in a run the i-th call of progressCallback has current = i, total =
\* analyzedFiles, current <= total and percentage = 100 * current / total,
\* so percentage never decreases, in whatever order the jobs complete
C29_ProgressCountsUp ==
    /\ \A i \in DOMAIN progress :
          /\ progress[i].current = i
          /\ progress[i].total = Len(filesToAnalyze)
          /\ progress[i].current <= progress[i].total
          /\ progress[i].percentage.den > 0
          /\ progress[i].percentage = Percentage(i, Len(filesToAnalyze))
    /\ \A i \in DOMAIN progress, k \in DOMAIN progress :
          i < k => NotAbove(progress[i].percentage, progress[k].percentage)

\* a finished run of three files that all reported, the second file first
C29_Witness ==
    /\ phase = "done"
    /\ Len(filesToAnalyze) = 3
    /\ Len(progress) = 3
    /\ progress[1].currentFile = filesToAnalyze[2]

-----------------------------------------------------------------------------
(* When the memory checks of a run happen *)

\* the memory checks made in the batch loop, by the number of the batch
\* they followed, counted from 1
CheckedAfter == {memChecks[i].at + 1 : i \in {k \in DOMAIN memChecks : memChecks[k].at >= 0}}

\* C30: in a run the memory check is made after the batches 5, 10, 15, ...
\* counted from 1, after each of them that was processed and after no
\* other batch
C30_MemoryCheckEveryFifthBatch ==
    phase \in {"running", "done"} =>
        /\ \A b \in CheckedAfter : b % 5 = 0
        /\ \A b \in 1..batchIndex : b % 5 = 0 => b \in CheckedAfter

-----------------------------------------------------------------------------
(* initialize() and the configuration file *)

\* initialize() tried to load a configuration file that could not be read
\* or parsed
LoadFailed == ConfigIsLoaded(Constructor(supplied), configFile) /\ configFile.st = "invalid"

\* C31: when reading or parsing the configuration file fails, initialize()
\* completes with the pool built and memory checked, one warning is emitted
\* and the options are what the constructor made of the caller's values
C31_FailedLoadKeepsOptions ==
    (phase = "ready" /\ LoadFailed) =>
        /\ options = Constructor(supplied)
        /\ warnings = <<"config">>
        /\ Len(memChecks) = 1
        /\ Len(workers) = PoolSize(Constructor(supplied).workerCount)

\* an initialized engine after a failed load, with options that are not
\* the defaults
C31_Witness ==
    /\ phase = "ready"
    /\ LoadFailed
    /\ options.batchSize = Num(50)
    /\ options.workerCount = Num(8)
    /\ Len(workers) = 8

\* C33: after initialize() the pool holds as many workers as the engine's
\* workerCount option says, also when a configuration file set it
C33_PoolSizeIsWorkerCount ==
    phase = "ready" =>
        /\ IsNum(options.workerCount)
        /\ Len(workers) = options.workerCount.v
        /\ Len(workerPool) = options.workerCount.v

-----------------------------------------------------------------------------
(* The order of the results *)

\* the place of the file of the i-th FileResult in the analyzed file list
PlaceOfResult(i) == IndexOf(filesToAnalyze, analysis.results[i].file)

\* C34: the FileResults of a returned analysis are in the order of their
\* files in the discovered file list, whatever the order in which the jobs
\* completed
C34_ResultsInFileOrder ==
    analysis.returned =>
        \A i, k \in DOMAIN analysis.results :
            i < k => /\ PlaceOfResult(i) > 0
                     /\ PlaceOfResult(i) < PlaceOfResult(k)

\* a returned analysis whose first batch completed second file first and
\* has both files in its results
C34_Witness ==
    /\ analysis.returned
    /\ Len(analysis.results) >= 2
    /\ Len(progress) >= 2
    /\ progress[1].currentFile = filesToAnalyze[2]
    /\ progress[2].currentFile = filesToAnalyze[1]
    /\ analysis.results[1].file = filesToAnalyze[1]
    /\ analysis.results[2].file = filesToAnalyze[2]

-----------------------------------------------------------------------------
(* The end of the process *)

\* C38: in non-watch mode, once the analyze action has returned and the
\* timers of the run have fired or been cleared, nothing the engine created
\* keeps the event loop alive, so that the process ends
C38_NothingKeepsProcessAlive ==
    (~cli.argv.watch /\ cli.step = "returned" /\ timers = {}) => EventLoopEmpty

-----------------------------------------------------------------------------
(* Runs of watch mode *)

\* the analyzeProject calls of watch mode that have not returned: those
\* awaiting their discovery and the one whose batches are being processed
RunsInProgress == watch.discovering + (IF watch.running THEN 1 ELSE 0)

\* C36: in watch mode at most one analysis run is in progress at any time:
\* the debounce timer never calls analyzeProject while an earlier call has
\* not returned
C36_OneRunAtATime == RunsInProgress <= 1

-----------------------------------------------------------------------------
(* One worker over jobs of several projects *)

\* the project paths of the jobs
ProjectPaths == {ProjectPath, "other"}

\* the jobs one worker is sent
MaxJobs == 3

\* the jobs worker w has been sent
JobsSent(w) == Len(inbox[w]) + Len(outbox[w])

\* the main thread posts a job to worker w, for a file of a project: the
\* postMessage of analyzeFileWithWorker, in an analyzeProject called with
\* that project's path.  The engine's bookkeeping is not followed here
PostJob(w) ==
    /\ phase = "ready"
    /\ wstate[w].st = "alive"
    /\ JobsSent(w) < MaxJobs
    /\ \E f \in DOMAIN fileBeh, path \in ProjectPaths :
         inbox' = [inbox EXCEPT ![w] =
                      Append(@, [JobMessage(JobsSent(w) + 1, f, issueTypes)
                                     EXCEPT !.projectPath = path])]
    /\ UNCHANGED <<supplied, options, configFile, workers, workerPool, activeJobs, jobId, jobs,
                   timers, wstate, outbox, replacing, faults, phase, issueTypes, fileBeh,
                   allFiles, filesToAnalyze, batches, batchIndex, promise, results,
                   processedFiles, progress, warnings, memChecks, analysis, watch, gc, cli,
                   clock>>

\* a file with findings whose program is built, and a file on which
\* initializeProgram throws
BindingBehaviours ==
    <<Behaviour("ok", [Quiet EXCEPT !["security"] = Finds]),
      Behaviour("throws", [Quiet EXCEPT !["security"] = Finds])>>

InitBinding ==
    InitEngine(Options(Num(1), Num(1), Num(10000), ""), NoFile, <<"security">>, BindingBehaviours)

NextBinding ==
    \/ Initialize
    \/ \E w \in DOMAIN wstate : PostJob(w)
    \/ \E w \in DOMAIN wstate : WorkerOnMessage(w)

SpecBinding == InitBinding /\ [][NextBinding]_vars

\* this step is worker w's message handler answering the first job of its queue
Handles(w) == w \in DOMAIN outbox /\ Len(outbox'[w]) = Len(outbox[w]) + 1

\* the step made a new parser and a new analyzer set in worker w
Rebuilt(w) ==
    /\ wstate'[w].parser = Head(inbox[w]).projectPath
    /\ wstate'[w].analyzers = Head(inbox[w]).projectPath
    /\ wstate'[w].sets = wstate[w].sets + 1

\* the step left worker w's parser and analyzer set as they were
Reused(w) == wstate'[w] = wstate[w]

\* C32: at every job a worker handles, parser and analyzer set are rebuilt
\* if and only if the worker has no parser yet or the job's project path is
\* not the path of its parser; a job with the path of the job before it
\* reuses the analyzer set
C32_RebuiltIffPathChanges ==
    [][\A w \in DOMAIN wstate :
          Handles(w) =>
              /\ Rebuilt(w) <=> NeedsInit(wstate[w], Head(inbox[w]).projectPath)
              /\ ~NeedsInit(wstate[w], Head(inbox[w]).projectPath) => Reused(w)]_vars

\* the step ran analyzers for the job: the set is there, initializeAnalyzers
\* did not throw and a requested type has an analyzer
AnalyzersRun(w) ==
    /\ ~InitThrows(wstate[w], Head(inbox[w]).projectPath, fileBeh[Head(inbox[w]).filePath])
    /\ wstate'[w].analyzers # ""
    /\ \E i \in DOMAIN Head(inbox[w]).issueTypes : Head(inbox[w]).issueTypes[i] \in IssueTypeSet

\* C39: whenever analyzers run for a job of project P, the analyzer set in
\* use was built for P, on the parser the worker holds for P
C39_AnalyzersOfTheJobsProject ==
    [][\A w \in DOMAIN wstate :
          (Handles(w) /\ AnalyzersRun(w)) =>
              /\ wstate'[w].analyzers = Head(inbox[w]).projectPath
              /\ wstate'[w].parser = wstate'[w].analyzers]_vars

-----------------------------------------------------------------------------
(* A file whose analysis never finishes, with time followed *)

\* the worker's 'message' handler starts a job whose analysis runs on: the
\* thread stays in it, no answer is posted and the messages that arrive
\* later stay in its queue
WorkerRunsAway(w) ==
    /\ Alive
    /\ wstate[w].st = "alive"
    /\ inbox[w] # <<>>
    /\ AnalysisRunsOn(wstate[w], Head(inbox[w]), fileBeh[Head(inbox[w]).filePath])
    /\ wstate' = [wstate EXCEPT ![w] =
                     [InitializeAnalyzers(@, Head(inbox[w]).projectPath,
                                          fileBeh[Head(inbox[w]).filePath])
                         EXCEPT !.st = "stuck"]]
    /\ inbox' = [inbox EXCEPT ![w] = Tail(@)]
    /\ UNCHANGED <<supplied, options, configFile, workers, workerPool, activeJobs, jobId, jobs,
                   timers, outbox, replacing, faults, phase, issueTypes, fileBeh, allFiles,
                   filesToAnalyze, batches, batchIndex, promise, results, processedFiles,
                   progress, warnings, memChecks, analysis, watch, gc, cli, clock>>

\* something is in progress that takes far less than a second on a healthy
\* worker: a job a worker can start, an answer on its way, a waiting file
\* for which a worker is free
Busy ==
    \/ \E w \in DOMAIN wstate : wstate[w].st = "alive" /\ inbox[w] # <<>>
    \/ \E w \in DOMAIN outbox : outbox[w] # <<>>
    \/ workerPool # <<>> /\ \E f \in DOMAIN promise : promise[f].st = "waiting"

\* time passes while nothing but a runaway analysis is in progress
ClockTickIdle == ~Busy /\ ClockTick

\* the file on which the security analyzer runs on
Runaway(f) == fileBeh[f].an["security"] = RunsOn

\* three files with a finding of the security analyzer each, except one on
\* which that analyzer never returns
RunawayBehaviours(k) ==
    [i \in 1..MaxDiscovered |->
        Behaviour("ok", [Quiet EXCEPT !["security"] = IF i = k THEN RunsOn ELSE Finds])]

InitRunaway ==
    \E k \in 1..MaxDiscovered, opts \in RunOptions :
        InitProcess(opts, NoFile, <<"security">>, RunawayBehaviours(k), FALSE, {FALSE}, TRUE)

NextRunaway ==
    \/ Initialize
    \/ AnalyzeProject
    \/ \E f \in 1..Len(fileBeh) : Poll(f)
    \/ \E w \in DOMAIN wstate : WorkerOnMessage(w)
    \/ \E w \in DOMAIN wstate : WorkerRunsAway(w)
    \/ \E w \in DOMAIN wstate : OnMessage(w)
    \/ \E id \in timers : Timeout(id)
    \/ ClockTickIdle

SpecRunaway == InitRunaway /\ [][NextRunaway]_vars

\* C35: a file whose analysis never finishes fails alone: no other file of
\* the run times out, and the findings of every other file whose answer
\* could be posted are in the results of the finished run
C35_OnlyTheRunawayFails ==
    \A f \in DOMAIN promise :
        ~Runaway(f) =>
            /\ promise[f].reason # "timeout"
            /\ (analysis.returned /\ promise[f].reason # "error")
                  => \E i \in DOMAIN analysis.results : analysis.results[i].file = f

-----------------------------------------------------------------------------
(* Termination of analyzeProject over the options an engine can hold *)

\* values of --batch-size and --workers after parseInt: a number, or NaN
\* for a value that is not numeric
ParsedBatchSizes == {NaN, Num(2)}
ParsedWorkerCounts == {NaN, Num(1)}

\* no configuration file, or one that sets a batch size or a worker count
TerminationFiles ==
    {NoFile,
     JsonFile(TRUE, Num(-1), Undefined, Undefined),
     JsonFile(TRUE, Num(1), Num(2), Undefined)}

InitTermination ==
    \E b \in ParsedBatchSizes, w \in ParsedWorkerCounts, file \in TerminationFiles,
       n \in 0..MaxDiscovered :
        InitEngine(Options(b, w, Num(10000), IF file = NoFile THEN "" ELSE "cfg.json"), file,
                   IssueTypeValues, [i \in 1..n |-> RunBehaviour(i)])

NextTermination ==
    \/ Initialize
    \/ AnalyzeProject
    \/ \E f \in 1..Len(fileBeh) : Poll(f)
    \/ \E w \in DOMAIN wstate : WorkerOnMessage(w)
    \/ \E w \in DOMAIN wstate : OnMessage(w)
    \/ \E id \in timers : Timeout(id)

SpecTermination == InitTermination /\ [][NextTermination]_vars

\* the main thread runs what is ready, and every timer fires: a job that is
\* not answered times out
SpecTerminationFair == SpecTermination /\ WF_vars(EngineTurn)

\* C37: whatever options the engine holds after construction and
\* initialize(), an analyzeProject whose discovery has returned comes to
\* its end: it returns or rejects
C37_AnalyzeProjectTerminates ==
    (phase \in {"running", "spinning"}) ~> (phase \in {"done", "rejected"})

-----------------------------------------------------------------------------
(* cleanup() during a run *)

\* cleanup(): every worker is terminated; when the terminations are over
\* the worker list, the free pool and the pending map are emptied.  The
\* promises of the pending jobs are not settled and no timer is cleared
Cleanup ==
    /\ Alive
    /\ phase \in {"ready", "running", "done"}
    /\ workers # <<>>
    /\ workers' = <<>>
    /\ wstate' = [w \in DOMAIN wstate |-> [wstate[w] EXCEPT !.st = "dead"]]
    /\ Apply([Eng EXCEPT !.workerPool = <<>>, !.activeJobs = {},
                         !.inbox = [w \in DOMAIN inbox |-> <<>>]])
    /\ UNCHANGED <<supplied, options, configFile, outbox, replacing, faults, issueTypes, fileBeh>>

InitCleanup ==
    \E n \in 0..MaxDiscovered, opts \in RunOptions :
        InitEngine(opts, NoFile, IssueTypeValues, [i \in 1..n |-> RunBehaviour(i)])

NextCleanup ==
    \/ Initialize
    \/ AnalyzeProject
    \/ \E f \in 1..Len(fileBeh) : Poll(f)
    \/ \E w \in DOMAIN wstate : WorkerOnMessage(w)
    \/ \E w \in DOMAIN wstate : OnMessage(w)
    \/ \E id \in timers : Timeout(id)
    \/ Cleanup

SpecCleanup == InitCleanup /\ [][NextCleanup]_vars

\* the main thread runs what is ready and every timer fires
SpecCleanupFair == SpecCleanup /\ WF_vars(EngineTurn)

\* cleanup() has run on an engine that had workers
CleanedUp == workers = <<>> /\ wstate # <<>>

\* a job of the run was dispatched and has not settled
SomeJobPending == \E f \in DOMAIN promise : promise[f].st = "pending"

\* C40: when cleanup() has run while analyzeProject had a pending job, the
\* pending and the waiting jobs settle and analyzeProject returns or rejects
C40_RunEndsAfterCleanup ==
    (CleanedUp /\ phase = "running" /\ SomeJobPending) ~> (phase \in {"done", "rejected"})

====
